---- MODULE Spec2Model ----
(***************************************************************************)
(* Dual-source recording pipeline of omni-meeting-recorder.                *)
(*                                                                         *)
(*   src/src/omr/backends/wasapi.py    WasapiBackend.record_dual_to_file   *)
(*   src/src/omr/core/aec_processor.py AECProcessor                        *)
(*   src/src/omr/core/audio_capture.py AudioCapture, RecordingSession      *)
(*   src/src/omr/cli/commands/record.py  the `start` command               *)
(*                                                                         *)
(* Four threads of control are modelled: the two reader threads, the       *)
(* record_worker thread (which runs record_dual_to_file and, inside it,    *)
(* recording_loop, the mixer) and the caller (the CLI `start` command).    *)
(***************************************************************************)
EXTENDS Integers, Sequences, FiniteSets, TLC

(***************************************************************************)
(* Bounds of the model.                                                    *)
(***************************************************************************)
\* Device reads that return data, per reader thread.  Further reads raise.
MaxReads == 2
\* The same for the mic, in the sessions whose loopback device falls silent
\* after one chunk.
MaxMicOnlyReads == 6
\* Frames returned by one device read (AudioSettings.chunk_size, scaled down).
ChunkFrames == 2
\* Capacity of each intake queue (Queue(maxsize=100), scaled down).
QueueMaxSize == 1
\* Frame size of the echo canceller (max(160, rate // 100), scaled down).
FrameSize == 3
MaxModeReads == 1          \* chunks per device of a dual session in AnyModeSpec
MaxAdapterOps == 4         \* calls made on an AECProcessor driven directly
MaxStageLen == 2           \* samples per slice handed to a stage applied alone
MaxAgcCycles == 104        \* mixer cycles of one source followed by AgcSpec

(***************************************************************************)
(* Program constants.                                                      *)
(***************************************************************************)
Int16Max == 32767
Int16Min == -32768
MicNoiseFloor == 50
LoopbackNoiseFloor == 100
AvgFloor == 50
agc_window == 50
mic_target_rms == 16000
loopback_target_rms == 8000
MicGainMax == 12
LoopbackGainMax == 6
\* Rates of the modelled devices (mic 48000 Hz mono, loopback 48000 Hz stereo).
MicRate == 48000
LoopbackRate == 48000
MicChannels == 1
LoopbackChannels == 2

\* Python floats are modelled exactly as rationals <<num, den>> (den > 0),
\* except for the square root of calc_rms, which is kept in units of
\* 1/RmsScale (rounded up).
RmsScale == 8

None == "None"

(***************************************************************************)
(* State.                                                                  *)
(***************************************************************************)
VARIABLES
    session,              \* RecordingSession: the immutable options
    aec_available,        \* is_aec_available()
    read_budget,          \* reads of each device that return data
    command,              \* the caller's arguments and environment, and
                          \* what the `start` command printed and returned
    stop_event,           \* session._stop_event
    is_recording,         \* session.state.is_recording
    bytes_recorded,       \* session.state.bytes_recorded
    error,                \* session.state.error
    caller_pc,            \* position of the `start` command
    worker_pc,            \* position of record_worker / record_dual_to_file
    worker_exc,           \* the exception propagating in the worker, or None
    mic_stream,           \* mic_stream._stream is not None
    loopback_stream,      \* loopback_stream._stream is not None
    mic_pc,               \* position of mic_reader_thread
    loopback_pc,          \* position of loopback_reader_thread
    mic_reads,            \* reads of the mic device that returned data
    loopback_reads,       \* reads of the loopback device that returned data
    mic_dropped,          \* mic chunks discarded on a full queue
    loopback_dropped,     \* loopback chunks discarded on a full queue
    mic_queue,
    loopback_queue,
    mic_buffer,
    loopback_buffer,
    mic_rms_history,
    loopback_rms_history,
    aec_processor,        \* the adapter's buffers; present = FALSE for None
    cycle,                \* recording_loop's locals of the current cycle
    sink,                 \* the frames written to the writer / wave file
    sink_state,           \* "none", "open" or "closed"
    accepted_at_stop,     \* loopback samples accepted when stop_event was
                          \* first set; -1 before
    adapter,              \* an AECProcessor driven directly by its caller
    stage                 \* one application of the gain / output stage

cfgVars    == <<session, aec_available, read_budget, command>>
stateVars  == <<is_recording, bytes_recorded, error>>
workerVars == <<worker_pc, worker_exc>>
streamVars == <<mic_stream, loopback_stream>>
micVars    == <<mic_pc, mic_reads, mic_dropped>>
lbVars     == <<loopback_pc, loopback_reads, loopback_dropped>>
queueVars  == <<mic_queue, loopback_queue>>
mixerVars  == <<mic_buffer, loopback_buffer, mic_rms_history,
                loopback_rms_history, aec_processor, cycle>>
sinkVars   == <<sink, sink_state>>
unitVars   == <<adapter, stage>>

vars == <<cfgVars, stop_event, stateVars, caller_pc, workerVars, streamVars,
          micVars, lbVars, queueVars, mixerVars, sinkVars, accepted_at_stop,
          unitVars>>

(***************************************************************************)
(* Sequence helpers.                                                       *)
(***************************************************************************)
RECURSIVE SumSeq(_)
SumSeq(s) == IF s = <<>> THEN 0 ELSE Head(s) + SumSeq(Tail(s))

Zeros(n) == [i \in 1..n |-> 0]

Prefix(s, n) == SubSeq(s, 1, n)

Suffix(s, n) == SubSeq(s, n + 1, Len(s))

Min(a, b) == IF a < b THEN a ELSE b

Max(a, b) == IF a > b THEN a ELSE b

\* int(x) of Python for x = a / b, b > 0: truncation towards zero.
TruncDiv(a, b) == IF a >= 0 THEN a \div b ELSE -((-a) \div b)

(***************************************************************************)
(* struct.pack / struct.unpack with format "<{n}h": little-endian signed   *)
(* 16-bit samples, two bytes each.                                         *)
(***************************************************************************)
\* the two bytes of one sample, low byte first
PackSample(s) == <<(s % 65536) % 256, (s % 65536) \div 256>>

\* struct.pack(f"<{len(samples)}h", *samples)
pack(samples) ==
    [k \in 1..(2 * Len(samples)) |->
        PackSample(samples[(k + 1) \div 2])[2 - (k % 2)]]

UnpackSample(lo, hi) ==
    LET u == lo + 256 * hi IN IF u >= 32768 THEN u - 65536 ELSE u

\* struct.unpack(f"<{len(data) // 2}h", data); data of even length
unpack(data) ==
    [i \in 1..(Len(data) \div 2) |-> UnpackSample(data[2 * i - 1], data[2 * i])]

(***************************************************************************)
(* to_mono, resample_simple, calc_rms, apply_gain (wasapi.py 309-367)      *)
(***************************************************************************)
to_mono(samples, channels, use_left_only) ==
    IF channels = 1 THEN samples
    ELSE [k \in 1..(Len(samples) \div channels) |->
            IF use_left_only
            THEN samples[(k - 1) * channels + 1]
            ELSE SumSeq(SubSeq(samples, (k - 1) * channels + 1, k * channels))
                    \div channels]

\* Output sample i (0-based) of resample_simple: pos = i / ratio = i*from/to,
\* idx = int(pos), frac = pos - idx = r / to with r = (i*from) % to.
ResampleAt(samples, from_rate, to_rate, i) ==
    LET idx == (i * from_rate) \div to_rate
        r   == (i * from_rate) % to_rate
    IN  IF idx + 1 < Len(samples)
        THEN TruncDiv(samples[idx + 1] * (to_rate - r) + samples[idx + 2] * r,
                      to_rate)
        ELSE IF idx < Len(samples) THEN samples[idx + 1] ELSE 0

\* Mutant: nothing is returned when there is nothing to resample.
resample_simple_empties(samples, from_rate, to_rate) ==
    IF from_rate = to_rate \/ samples = <<>> THEN <<>>
    ELSE LET new_length == (Len(samples) * to_rate) \div from_rate
         IN  [i \in 1..new_length |->
                ResampleAt(samples, from_rate, to_rate, i - 1)]

\* Mutant: two more output samples than the ratio gives.
resample_simple_longer(samples, from_rate, to_rate) ==
    IF from_rate = to_rate \/ samples = <<>> THEN samples
    ELSE LET new_length == (Len(samples) * to_rate) \div from_rate + 2
         IN  [i \in 1..new_length |->
                ResampleAt(samples, from_rate, to_rate, i - 1)]

\* The indices of `samples` (from 0) that resample_simple reads.
ResampleReads(samples, from_rate, to_rate) ==
    IF from_rate = to_rate \/ samples = <<>> THEN {}
    ELSE UNION {LET idx == (i * from_rate) \div to_rate
                IN  IF idx + 1 < Len(samples) THEN {idx, idx + 1}
                    ELSE IF idx < Len(samples) THEN {idx} ELSE {} :
                  i \in 0..((Len(samples) * to_rate) \div from_rate - 1)}

resample_simple(samples, from_rate, to_rate) ==
    IF from_rate = to_rate \/ samples = <<>> THEN samples
    ELSE LET new_length == (Len(samples) * to_rate) \div from_rate
         IN  [i \in 1..new_length |->
                ResampleAt(samples, from_rate, to_rate, i - 1)]

SumSq(samples) == SumSeq([i \in 1..Len(samples) |-> samples[i] * samples[i]])

Abs(x) == IF x < 0 THEN -x ELSE x

MaxAbs(samples) ==
    IF samples = <<>> THEN 0
    ELSE CHOOSE m \in {Abs(samples[i]) : i \in 1..Len(samples)} :
            \A i \in 1..Len(samples) : Abs(samples[i]) <= m

\* least r in lo..hi with r * r * n >= v, by bisection (the midpoint is
\* bound by a set constructor so that it is computed once per step)
RECURSIVE CeilRoot(_, _, _, _)
CeilRoot(v, n, lo, hi) ==
    IF lo = hi THEN lo
    ELSE CHOOSE r \in {IF mid * mid * n >= v THEN CeilRoot(v, n, lo, mid)
                       ELSE CeilRoot(v, n, mid + 1, hi) :
                         mid \in {(lo + hi) \div 2}} : TRUE

\* calc_rms in units of 1/RmsScale, rounded up:
\* ceil(RmsScale * sqrt(sum_sq / len)); 0.0 for no samples.
calc_rms(samples) ==
    IF samples = <<>> THEN 0
    ELSE CeilRoot(SumSq(samples) * RmsScale * RmsScale, Len(samples),
                  0, RmsScale * MaxAbs(samples))

\* rms > floor, decided exactly: sum_sq / len > floor^2
RmsExceeds(samples, floor) ==
    samples # <<>> /\ SumSq(samples) > floor * floor * Len(samples)

\* apply_gain with gain = <<num, den>>: scale, clamp, int().
GainSample(s, gain) ==
    LET num == s * gain[1]
        den == gain[2]
    IN  IF num > Int16Max * den THEN Int16Max
        ELSE IF num < Int16Min * den THEN Int16Min
        ELSE TruncDiv(num, den)

apply_gain(samples, gain) ==
    [i \in 1..Len(samples) |-> GainSample(samples[i], gain)]

(***************************************************************************)
(* Automatic gain control of one source (wasapi.py 460-492).               *)
(***************************************************************************)
\* Mutant: nothing is evicted, the history grows beyond agc_window.
TrackRmsNoEviction(history, chunk, floor) ==
    IF RmsExceeds(chunk, floor) THEN Append(history, calc_rms(chunk))
    ELSE history

\* Mutant: a full history keeps its entries and drops the new one.
TrackRmsKeepsOldest(history, chunk, floor) ==
    IF RmsExceeds(chunk, floor) /\ Len(history) < agc_window
    THEN Append(history, calc_rms(chunk))
    ELSE history

\* Mutant: the RMS of every chunk is tracked, quiet or not.
TrackRmsAlways(history, chunk, floor) ==
    LET h == Append(history, calc_rms(chunk))
    IN  IF Len(h) > agc_window THEN Tail(h) ELSE h

\* "Track RMS history": append when above the noise floor, evict the oldest
\* entry beyond agc_window.
TrackRms(history, chunk, floor) ==
    IF RmsExceeds(chunk, floor)
    THEN LET h == Append(history, calc_rms(chunk))
         IN  IF Len(h) > agc_window THEN Tail(h) ELSE h
    ELSE history

\* The gain branch is taken: history non-empty and its average above 50.
GainBranch(history) ==
    history # <<>> /\ SumSeq(history) > AvgFloor * RmsScale * Len(history)

\* Mutant: the gain has no upper bound.
AutoGainNoCeiling(history, target, gmax) ==
    LET num == target * RmsScale * Len(history)
        den == SumSeq(history)
    IN  IF 2 * num < den THEN <<1, 2>> ELSE <<num, den>>

\* auto gain = max(0.5, min(gmax, target / avg)), avg = sum / len.
AutoGain(history, target, gmax) ==
    LET num == target * RmsScale * Len(history)
        den == SumSeq(history)
    IN  IF num > gmax * den THEN <<gmax, 1>>
        ELSE IF 2 * num < den THEN <<1, 2>>
        ELSE <<num, den>>

\* total gain = auto gain * user gain multiplier
TotalGain(history, target, gmax, user_gain) ==
    LET a == AutoGain(history, target, gmax)
    IN  <<a[1] * user_gain[1], a[2] * user_gain[2]>>

\* "Normalize ... to target level": the chunk after the gain stage.
Normalize(chunk, history, target, gmax, user_gain) ==
    IF GainBranch(history)
    THEN apply_gain(chunk, TotalGain(history, target, gmax, user_gain))
    ELSE chunk

(***************************************************************************)
(* AECProcessor.process_samples (aec_processor.py 85-125).  The cancel     *)
(* service is opaque: `mode` selects one of its modelled behaviours.       *)
(***************************************************************************)
CancelModes == {"pass", "subtract"}

cancel(mic_frame, ref_frame, mode) ==
    IF mode = "pass" THEN mic_frame
    ELSE [i \in 1..Len(mic_frame) |-> mic_frame[i] - ref_frame[i]]

\* Mutant: a frame is processed as soon as the mic buffer holds one, the
\* reference frame filled up with silence.
RECURSIVE ProcessFramesMicOnly(_, _, _, _, _)
ProcessFramesMicOnly(mic, ref, out, calls, mode) ==
    IF Len(mic) >= FrameSize
    THEN ProcessFramesMicOnly(
             Suffix(mic, FrameSize),
             IF Len(ref) >= FrameSize THEN Suffix(ref, FrameSize) ELSE <<>>,
             out \o cancel(Prefix(mic, FrameSize),
                           Prefix(ref \o Zeros(FrameSize), FrameSize), mode),
             calls + 1, mode)
    ELSE [mic_buffer |-> mic, ref_buffer |-> ref, result |-> out,
          calls |-> calls]

\* Mutant: a mic frame is cancelled against the newest reference frame.
RECURSIVE ProcessFramesNewestRef(_, _, _, _, _)
ProcessFramesNewestRef(mic, ref, out, calls, mode) ==
    IF Len(mic) >= FrameSize /\ Len(ref) >= FrameSize
    THEN ProcessFramesNewestRef(
             Suffix(mic, FrameSize), Suffix(ref, FrameSize),
             out \o cancel(Prefix(mic, FrameSize),
                           Suffix(ref, Len(ref) - FrameSize), mode),
             calls + 1, mode)
    ELSE [mic_buffer |-> mic, ref_buffer |-> ref, result |-> out,
          calls |-> calls]

\* Mutant: `if` for `while`: at most one frame is processed per call.
ProcessFramesOnce(mic, ref, out, calls, mode) ==
    IF Len(mic) >= FrameSize /\ Len(ref) >= FrameSize
    THEN [mic_buffer |-> Suffix(mic, FrameSize),
          ref_buffer |-> Suffix(ref, FrameSize),
          result |-> out \o cancel(Prefix(mic, FrameSize),
                                   Prefix(ref, FrameSize), mode),
          calls |-> calls + 1]
    ELSE [mic_buffer |-> mic, ref_buffer |-> ref, result |-> out,
          calls |-> calls]

\* "Process complete frames": the while loop, on the adapter's three buffers.
RECURSIVE ProcessFrames(_, _, _, _, _)
ProcessFrames(mic, ref, out, calls, mode) ==
    IF Len(mic) >= FrameSize /\ Len(ref) >= FrameSize
    THEN ProcessFrames(Suffix(mic, FrameSize), Suffix(ref, FrameSize),
                       out \o cancel(Prefix(mic, FrameSize),
                                     Prefix(ref, FrameSize), mode),
                       calls + 1, mode)
    ELSE [mic_buffer |-> mic, ref_buffer |-> ref, result |-> out,
          calls |-> calls]

\* Mutant: the samples passed in replace the buffered ones.
process_samples_fresh(a, mic_samples, ref_samples, mode) ==
    ProcessFrames(mic_samples, ref_samples, <<>>, 0, mode)

\* process_samples on adapter state `a` = [mic_buffer, ref_buffer]; the
\* output buffer is empty between calls (it is returned and cleared).
process_samples(a, mic_samples, ref_samples, mode) ==
    ProcessFrames(a.mic_buffer \o mic_samples, a.ref_buffer \o ref_samples,
                  <<>>, 0, mode)

\* Mutant: flush leaves the reference buffer as it is.
flush_keeps_ref(a) ==
    [mic_buffer |-> <<>>, ref_buffer |-> a.ref_buffer,
     output_buffer |-> a.output_buffer, result |-> a.mic_buffer]

\* AECProcessor.flush (aec_processor.py 155-167): the mic buffer is
\* returned; the mic and the reference buffer are cleared, _output_buffer is
\* not touched.
flush(a) ==
    [mic_buffer |-> <<>>, ref_buffer |-> <<>>,
     output_buffer |-> a.output_buffer, result |-> a.mic_buffer]

\* AECProcessor.reset (aec_processor.py 169-180): all three buffers cleared.
reset(a) ==
    [mic_buffer |-> <<>>, ref_buffer |-> <<>>, output_buffer |-> <<>>,
     result |-> <<>>]

(***************************************************************************)
(* One mixer cycle of recording_loop (wasapi.py 439-507), from the two     *)
(* accumulation buffers to the packed output frame.                        *)
(***************************************************************************)
\* Mutant: a cycle also emits when only mic data is buffered.
HasOutputAny(lbuf) == lbuf # <<>> \/ mic_buffer # <<>>

\* Mutant: a cycle waits until mic data is buffered too.
HasOutputNeedsMic(lbuf) == lbuf # <<>> /\ mic_buffer # <<>>

\* "Output based on loopback buffer (master clock)": `if loopback_buffer:`
HasOutput(lbuf) == lbuf # <<>>

\* Mutant: a short mic buffer is handed on without the zero padding.
TakeMicNoPad(buffer, chunk_size) ==
    IF Len(buffer) >= chunk_size THEN Prefix(buffer, chunk_size) ELSE buffer

\* "Take matching amount from mic buffer": the slice, zero-padded.
TakeMic(buffer, chunk_size) ==
    IF Len(buffer) >= chunk_size
    THEN Prefix(buffer, chunk_size)
    ELSE buffer \o Zeros(chunk_size - Len(buffer))

\* What stays in mic_buffer after the slice.
RestMic(buffer, chunk_size) ==
    IF Len(buffer) >= chunk_size THEN Suffix(buffer, chunk_size) ELSE <<>>

\* Mutant: the combined sample is packed as it is.
ClampNone(s) == s

Clamp16(s) == Max(Int16Min, Min(Int16Max, s))

\* Mutant: the channels of a stereo-split frame are exchanged and the mix is
\* rounded down.
StereoSamplesSwapped(chunk_size, mic_chunk, loopback_chunk, split, mix_ratio) ==
    LET mic_val(i)  == IF i <= Len(mic_chunk) THEN mic_chunk[i] ELSE 0
        loop_val(i) == IF i <= Len(loopback_chunk) THEN loopback_chunk[i] ELSE 0
        mixed(i)    == (mic_val(i) * mix_ratio[1]
                          + loop_val(i) * (mix_ratio[2] - mix_ratio[1]))
                         \div mix_ratio[2]
    IN  [k \in 1..(2 * chunk_size) |->
            IF split
            THEN IF k % 2 = 1 THEN loop_val((k + 1) \div 2)
                 ELSE mic_val(k \div 2)
            ELSE mixed((k + 1) \div 2)]

\* "Create stereo output": the interleaved samples, lines 494-505.
StereoSamples(chunk_size, mic_chunk, loopback_chunk, split, mix_ratio) ==
    LET mic_val(i)  == IF i <= Len(mic_chunk) THEN mic_chunk[i] ELSE 0
        loop_val(i) == IF i <= Len(loopback_chunk) THEN loopback_chunk[i] ELSE 0
        mixed(i)    == TruncDiv(mic_val(i) * mix_ratio[1]
                                  + loop_val(i) * (mix_ratio[2] - mix_ratio[1]),
                                mix_ratio[2])
    IN  [k \in 1..(2 * chunk_size) |->
            IF split
            THEN IF k % 2 = 1 THEN mic_val((k + 1) \div 2)
                 ELSE loop_val(k \div 2)
            ELSE mixed((k + 1) \div 2)]

\* clamped = [max(-32768, min(32767, s)) for s in output_samples]
Clamped(output_samples) ==
    [k \in 1..Len(output_samples) |-> Clamp16(output_samples[k])]

(***************************************************************************)
(* Devices: what one read of a stream returns.  Every read returns         *)
(* ChunkFrames frames of a test signal above the noise floors, in which    *)
(* every sample value identifies its read r and its position; the second   *)
(* channel of a stereo device carries different (negative) values.         *)
(***************************************************************************)
DeviceSamples(base, r, channels) ==
    [j \in 1..(ChunkFrames * channels) |->
        LET frame == (j - 1) \div channels + 1
            left  == base + 8 * r + frame
        IN  IF (j - 1) % channels = 0 THEN left ELSE -left - 1]

\* mic_stream.read() and loopback_stream.read(): raw little-endian bytes
MicData(r) == pack(DeviceSamples(1500, r, MicChannels))

LoopbackData(r) == pack(DeviceSamples(1400, r, LoopbackChannels))

\* mic_reader_thread, lines 381-384: bytes to the queued chunk
MicConvert(data) ==
    resample_simple(to_mono(unpack(data), MicChannels, FALSE),
                    MicRate, LoopbackRate)

\* Mutant: the loopback down-mix averages the channels.
LoopbackConvertAverage(data) == to_mono(unpack(data), LoopbackChannels, FALSE)

\* loopback_reader_thread, lines 396-398
LoopbackConvert(data) == to_mono(unpack(data), LoopbackChannels, TRUE)

\* Mutant: the queue accepts the chunk although it is full.
put_unbounded(queue, chunk) == Append(queue, chunk)

\* Queue.put_nowait under contextlib.suppress: drop the chunk when full.
put_nowait(queue, chunk) ==
    IF Len(queue) >= QueueMaxSize THEN queue ELSE Append(queue, chunk)

\* The sessions of the model: BOTH mode with both devices resolved, user
\* gains 1.0 and mix ratio 0.5 (the defaults of RecordingSession).
Sessions ==
    [mode : {"BOTH"}, mic_device : {TRUE}, loopback_device : {TRUE},
     stereo_split : BOOLEAN, aec_enabled : BOOLEAN, direct_mp3 : BOOLEAN,
     mic_gain : {<<1, 1>>}, loopback_gain : {<<1, 1>>}, mix_ratio : {<<1, 2>>}]

\* The single-source sessions: MIC or LOOPBACK mode, the other options at
\* their defaults.
SingleSessions ==
    {s \in [mode : {"MIC", "LOOPBACK"},
            mic_device : BOOLEAN, loopback_device : BOOLEAN,
            stereo_split : {TRUE}, aec_enabled : {FALSE},
            direct_mp3 : BOOLEAN, mic_gain : {<<1, 1>>},
            loopback_gain : {<<1, 1>>}, mix_ratio : {<<1, 2>>}] :
        /\ s.mic_device = (s.mode = "MIC")
        /\ s.loopback_device = (s.mode = "LOOPBACK")}

\* `aec_processor: AECProcessor | None = None`
NoAec == [present |-> FALSE, mic_buffer |-> <<>>, ref_buffer |-> <<>>]

NoCycle ==
    [chunk_size |-> 0, mic_buffered |-> <<>>, mic_slice |-> <<>>,
     mic_chunk |-> <<>>, loopback_chunk |-> <<>>, output_data |-> <<>>]

\* No AECProcessor is driven outside the pipeline, no stage is applied alone.
NoAdapter == [op |-> "none"]

NoStage == [op |-> "none"]

\* The session is handed over already created and lameenc is installed.
NoCommand == [entry |-> "none", lameenc |-> TRUE]

\* RecordingState() and the worker's state before start_recording.
Unstarted ==
    /\ stop_event = FALSE
    /\ is_recording = FALSE
    /\ bytes_recorded = 0
    /\ error = None
    /\ worker_pc = "unstarted"
    /\ worker_exc = None
    /\ mic_stream = FALSE
    /\ loopback_stream = FALSE
    /\ mic_pc = "unstarted"
    /\ loopback_pc = "unstarted"
    /\ mic_reads = 0
    /\ loopback_reads = 0
    /\ mic_dropped = 0
    /\ loopback_dropped = 0
    /\ mic_queue = <<>>
    /\ loopback_queue = <<>>
    /\ mic_buffer = <<>>
    /\ loopback_buffer = <<>>
    /\ mic_rms_history = <<>>
    /\ loopback_rms_history = <<>>
    /\ aec_processor = NoAec
    /\ cycle = NoCycle
    /\ sink = <<>>
    /\ sink_state = "none"
    /\ accepted_at_stop = -1

\* The state after create_session, but for the options and the devices.
Idle == command = NoCommand /\ caller_pc = "created" /\ Unstarted

Created == Idle /\ adapter = NoAdapter /\ stage = NoStage

Init ==
    /\ session \in Sessions
    /\ aec_available \in BOOLEAN
    /\ (~session.aec_enabled => aec_available)
    /\ read_budget = [mic |-> MaxReads, loopback |-> MaxReads]
    /\ Created

\* Loopback samples held by the queue and the buffer, and those written.
QueuedSamples(queue) == SumSeq([k \in 1..Len(queue) |-> Len(queue[k])])

SinkPairs == SumSeq([k \in 1..Len(sink) |-> Len(sink[k]) \div 4])

InFlight == IF worker_pc = "write" THEN cycle.chunk_size ELSE 0

LoopbackAccepted ==
    QueuedSamples(loopback_queue) + Len(loopback_buffer) + InFlight + SinkPairs

(***************************************************************************)
(* The caller: the `start` command (record.py 157-180) and                 *)
(* AudioCapture.start_recording / stop_recording (audio_capture.py).       *)
(***************************************************************************)
\* Mutant: request_stop flips the event.
request_stop_toggles ==
    /\ stop_event' = ~stop_event
    /\ accepted_at_stop' =
         IF stop_event THEN accepted_at_stop ELSE LoopbackAccepted

\* session.request_stop(): self._stop_event.set()
request_stop ==
    /\ stop_event' = TRUE
    /\ accepted_at_stop' =
         IF stop_event THEN accepted_at_stop ELSE LoopbackAccepted

\* start_recording, lines 166-173 and 250-251
start_recording ==
    /\ caller_pc = "created"
    /\ ~is_recording
    /\ is_recording' = TRUE
    /\ bytes_recorded' = 0
    /\ error' = None
    /\ worker_pc' = "make_writer"
    /\ caller_pc' = "waiting"
    /\ UNCHANGED <<cfgVars, unitVars, stop_event, worker_exc, streamVars, micVars,
                   lbVars, queueVars, mixerVars, sinkVars, accepted_at_stop>>

\* `while session.state.is_recording` found false
LeaveWaitLoop ==
    /\ caller_pc = "waiting"
    /\ ~is_recording
    /\ caller_pc' = "finished"
    /\ UNCHANGED <<cfgVars, unitVars, stop_event, stateVars, workerVars, streamVars,
                   micVars, lbVars, queueVars, mixerVars, sinkVars,
                   accepted_at_stop>>

\* KeyboardInterrupt in the wait loop: session.request_stop(), then
\* stop_recording's own request_stop
KeyboardInterrupt ==
    /\ caller_pc = "waiting"
    /\ request_stop
    /\ caller_pc' = "joining"
    /\ UNCHANGED <<cfgVars, unitVars, stateVars, workerVars, streamVars, micVars,
                   lbVars, queueVars, mixerVars, sinkVars>>

\* stop_recording: _recording_thread.join(timeout=5.0) returns, because the
\* worker ended or because the timeout elapsed
StopRecordingReturns ==
    /\ caller_pc = "joining"
    /\ caller_pc' = "finished"
    /\ UNCHANGED <<cfgVars, unitVars, stop_event, stateVars, workerVars, streamVars,
                   micVars, lbVars, queueVars, mixerVars, sinkVars,
                   accepted_at_stop>>

\* "Recording stopped": the command reads state.error
ReportOutcome ==
    /\ caller_pc = "finished"
    /\ caller_pc' = IF error # None THEN "error_reported"
                    ELSE "complete_reported"
    /\ UNCHANGED <<cfgVars, unitVars, stop_event, stateVars, workerVars, streamVars,
                   micVars, lbVars, queueVars, mixerVars, sinkVars,
                   accepted_at_stop>>

Caller ==
    \/ start_recording
    \/ LeaveWaitLoop
    \/ KeyboardInterrupt
    \/ StopRecordingReturns
    \/ ReportOutcome

(***************************************************************************)
(* mic_reader_thread (wasapi.py 376-389).                                  *)
(***************************************************************************)
\* `while not stop_event.is_set()`
MicLoopTest ==
    /\ mic_pc = "test"
    /\ mic_pc' = IF stop_event THEN "done" ELSE "read"
    /\ UNCHANGED <<mic_reads, mic_dropped>>
    /\ UNCHANGED <<cfgVars, unitVars, stop_event, stateVars, caller_pc, workerVars,
                   streamVars, lbVars, queueVars, mixerVars, sinkVars,
                   accepted_at_stop>>

\* Mutant: the mic reader appends its chunk to the mixer's buffer itself.
MicReadIntoBuffer ==
    /\ mic_pc = "read"
    /\ mic_stream
    /\ mic_reads < read_budget.mic
    /\ mic_buffer' = mic_buffer \o MicConvert(MicData(mic_reads + 1))
    /\ mic_reads' = mic_reads + 1
    /\ mic_pc' = "test"
    /\ UNCHANGED <<cfgVars, unitVars, stop_event, stateVars, caller_pc,
                   workerVars, streamVars, lbVars, queueVars, mic_dropped,
                   loopback_buffer, mic_rms_history, loopback_rms_history,
                   aec_processor, cycle, sinkVars, accepted_at_stop>>

\* mic_stream.read() returns a chunk; it is converted and put_nowait
MicRead ==
    /\ mic_pc = "read"
    /\ mic_stream
    /\ mic_reads < read_budget.mic
    /\ \E resampled \in {MicConvert(MicData(mic_reads + 1))} :
           /\ mic_queue' = put_nowait(mic_queue, resampled)
           /\ mic_dropped' = IF Len(mic_queue) >= QueueMaxSize
                             THEN mic_dropped + 1 ELSE mic_dropped
    /\ mic_reads' = mic_reads + 1
    /\ mic_pc' = "test"
    /\ UNCHANGED <<cfgVars, unitVars, stop_event, stateVars, caller_pc, workerVars,
                   streamVars, lbVars, loopback_queue, mixerVars, sinkVars,
                   accepted_at_stop>>

\* Mutant: a failed read ends the mic reader whether or not cancellation is
\* set.
MicReadRaisesExits ==
    /\ mic_pc = "read"
    /\ mic_pc' = "done"
    /\ UNCHANGED <<mic_reads, mic_dropped>>
    /\ UNCHANGED <<cfgVars, unitVars, stop_event, stateVars, caller_pc,
                   workerVars, streamVars, lbVars, queueVars, mixerVars,
                   sinkVars, accepted_at_stop>>

\* mic_stream.read() raises (a device error, or "Stream is not open"):
\* `except Exception: if stop_event.is_set(): break`
MicReadRaises ==
    /\ mic_pc = "read"
    /\ mic_pc' = IF stop_event THEN "done" ELSE "test"
    /\ UNCHANGED <<mic_reads, mic_dropped>>
    /\ UNCHANGED <<cfgVars, unitVars, stop_event, stateVars, caller_pc, workerVars,
                   streamVars, lbVars, queueVars, mixerVars, sinkVars,
                   accepted_at_stop>>

MicReader == MicLoopTest \/ MicRead \/ MicReadRaises

(***************************************************************************)
(* loopback_reader_thread (wasapi.py 391-403).                             *)
(***************************************************************************)
LoopbackLoopTest ==
    /\ loopback_pc = "test"
    /\ loopback_pc' = IF stop_event THEN "done" ELSE "read"
    /\ UNCHANGED <<loopback_reads, loopback_dropped>>
    /\ UNCHANGED <<cfgVars, unitVars, stop_event, stateVars, caller_pc, workerVars,
                   streamVars, micVars, queueVars, mixerVars, sinkVars,
                   accepted_at_stop>>

LoopbackRead ==
    /\ loopback_pc = "read"
    /\ loopback_stream
    /\ loopback_reads < read_budget.loopback
    /\ \E mono \in {LoopbackConvert(LoopbackData(loopback_reads + 1))} :
           /\ loopback_queue' = put_nowait(loopback_queue, mono)
           /\ loopback_dropped' = IF Len(loopback_queue) >= QueueMaxSize
                                  THEN loopback_dropped + 1
                                  ELSE loopback_dropped
    /\ loopback_reads' = loopback_reads + 1
    /\ loopback_pc' = "test"
    /\ UNCHANGED <<cfgVars, unitVars, stop_event, stateVars, caller_pc, workerVars,
                   streamVars, micVars, mic_queue, mixerVars, sinkVars,
                   accepted_at_stop>>

LoopbackReadRaises ==
    /\ loopback_pc = "read"
    /\ loopback_pc' = IF stop_event THEN "done" ELSE "test"
    /\ UNCHANGED <<loopback_reads, loopback_dropped>>
    /\ UNCHANGED <<cfgVars, unitVars, stop_event, stateVars, caller_pc, workerVars,
                   streamVars, micVars, queueVars, mixerVars, sinkVars,
                   accepted_at_stop>>

LoopbackReader == LoopbackLoopTest \/ LoopbackRead \/ LoopbackReadRaises

(***************************************************************************)
(* record_worker (audio_capture.py 178-248) running record_dual_to_file    *)
(* (wasapi.py 271-536).                                                    *)
(***************************************************************************)
\* The worker raises `exc` at a point inside record_dual_to_file's
\* try/finally: control goes to the finally clause.
RaiseInDual(exc) ==
    /\ worker_exc' = exc
    /\ worker_pc' = "close_streams"

\* record_worker, lines 210-244: the backend method the mode selects
BothRequired == "Both mic and loopback devices are required for BOTH mode"

Dispatch ==
    IF session.mode = "LOOPBACK" /\ session.loopback_device
    THEN "single_open"
    ELSE IF session.mode = "MIC" /\ session.mic_device THEN "single_open"
    ELSE IF session.mode = "BOTH"
    THEN IF session.mic_device /\ session.loopback_device
         THEN "setup" ELSE "except"
    ELSE "finally"

\* encoder.py 7-18
is_mp3_available == command.lameenc

\* StreamingMP3Encoder(...): without lameenc the encoder cannot be built
EncoderOutcomes == IF is_mp3_available THEN BOOLEAN ELSE {FALSE}

\* record_worker, lines 183-208: the StreamingMP3Encoder of a direct_mp3
\* session is constructed before the backend is called
MakeWriter ==
    /\ worker_pc = "make_writer"
    /\ IF session.direct_mp3
       THEN \E ok \in EncoderOutcomes :
              IF ok
              THEN /\ sink_state' = "open"
                   /\ worker_pc' = Dispatch
                   /\ worker_exc' = IF Dispatch = "except"
                                    THEN BothRequired ELSE worker_exc
              ELSE /\ worker_exc' = IF is_mp3_available THEN "EncoderError"
                                    ELSE "EncoderUnavailable"
                   /\ worker_pc' = "except"
                   /\ UNCHANGED sink_state
       ELSE /\ worker_pc' = Dispatch
            /\ worker_exc' = IF Dispatch = "except"
                             THEN BothRequired ELSE worker_exc
            /\ UNCHANGED sink_state
    /\ UNCHANGED <<cfgVars, unitVars, stop_event, stateVars, caller_pc, streamVars,
                   micVars, lbVars, queueVars, mixerVars, sink,
                   accepted_at_stop>>

\* aec_frame_size = max(160, output_sample_rate // 100)
aec_frame_size(output_sample_rate) == Max(160, output_sample_rate \div 100)

\* Setup creating the processor whenever echo cancellation is requested.
SetupWithoutProbe ==
    /\ worker_pc = "setup"
    /\ aec_processor' =
         IF session.aec_enabled
         THEN [present |-> TRUE, mic_buffer |-> <<>>, ref_buffer |-> <<>>]
         ELSE NoAec
    /\ mic_queue' = <<>>
    /\ loopback_queue' = <<>>
    /\ mic_buffer' = <<>>
    /\ loopback_buffer' = <<>>
    /\ mic_rms_history' = <<>>
    /\ loopback_rms_history' = <<>>
    /\ worker_pc' = "open_mic"
    /\ UNCHANGED <<cfgVars, unitVars, stop_event, stateVars, caller_pc, worker_exc,
                   streamVars, micVars, lbVars, cycle, sinkVars,
                   accepted_at_stop>>

\* record_dual_to_file, lines 271-307 and 369-407: streams, the AEC
\* processor, the queues, the AGC state and the buffers are created
Setup ==
    /\ worker_pc = "setup"
    /\ aec_processor' =
         IF session.aec_enabled /\ aec_available
         THEN [present |-> TRUE, mic_buffer |-> <<>>, ref_buffer |-> <<>>]
         ELSE NoAec
    /\ mic_queue' = <<>>
    /\ loopback_queue' = <<>>
    /\ mic_buffer' = <<>>
    /\ loopback_buffer' = <<>>
    /\ mic_rms_history' = <<>>
    /\ loopback_rms_history' = <<>>
    /\ worker_pc' = "open_mic"
    /\ UNCHANGED <<cfgVars, unitVars, stop_event, stateVars, caller_pc, worker_exc,
                   streamVars, micVars, lbVars, cycle, sinkVars,
                   accepted_at_stop>>

\* mic_stream.open()
OpenMic ==
    /\ worker_pc = "open_mic"
    /\ \E ok \in BOOLEAN :
         IF ok
         THEN /\ mic_stream' = TRUE
              /\ worker_pc' = "open_loopback"
              /\ UNCHANGED worker_exc
         ELSE /\ RaiseInDual("DeviceUnavailable")
              /\ UNCHANGED mic_stream
    /\ UNCHANGED <<cfgVars, unitVars, stop_event, stateVars, caller_pc, loopback_stream,
                   micVars, lbVars, queueVars, mixerVars, sinkVars,
                   accepted_at_stop>>

\* loopback_stream.open()
OpenLoopback ==
    /\ worker_pc = "open_loopback"
    /\ \E ok \in BOOLEAN :
         IF ok
         THEN /\ loopback_stream' = TRUE
              /\ worker_pc' = "start_threads"
              /\ UNCHANGED worker_exc
         ELSE /\ RaiseInDual("DeviceUnavailable")
              /\ UNCHANGED loopback_stream
    /\ UNCHANGED <<cfgVars, unitVars, stop_event, stateVars, caller_pc, mic_stream,
                   micVars, lbVars, queueVars, mixerVars, sinkVars,
                   accepted_at_stop>>

\* mic_thread.start(); loopback_thread.start()
StartThreads ==
    /\ worker_pc = "start_threads"
    /\ mic_pc' = "test"
    /\ loopback_pc' = "test"
    /\ worker_pc' = IF session.direct_mp3 THEN "loop_test" ELSE "open_wave"
    /\ UNCHANGED <<mic_reads, mic_dropped, loopback_reads, loopback_dropped>>
    /\ UNCHANGED <<cfgVars, unitVars, stop_event, stateVars, caller_pc, worker_exc,
                   streamVars, queueVars, mixerVars, sinkVars,
                   accepted_at_stop>>

\* `with wave.open(str(output_path), "wb") as wf`
OpenWave ==
    /\ worker_pc = "open_wave"
    /\ \E ok \in BOOLEAN :
         IF ok
         THEN /\ sink_state' = "open"
              /\ worker_pc' = "loop_test"
              /\ UNCHANGED worker_exc
         ELSE /\ RaiseInDual("IoError")
              /\ UNCHANGED sink_state
    /\ UNCHANGED <<cfgVars, unitVars, stop_event, stateVars, caller_pc, streamVars,
                   micVars, lbVars, queueVars, mixerVars, sink,
                   accepted_at_stop>>

\* Mutant: the mixer loop does not look at stop_event.
MixerLoopForever ==
    /\ worker_pc = "loop_test"
    /\ worker_pc' = "drain_mic"
    /\ UNCHANGED <<cfgVars, unitVars, stop_event, stateVars, caller_pc, worker_exc,
                   streamVars, micVars, lbVars, queueVars, mixerVars,
                   sinkVars, accepted_at_stop>>

\* recording_loop: `while not stop_event.is_set()`
MixerLoopTest ==
    /\ worker_pc = "loop_test"
    /\ worker_pc' = IF stop_event THEN "close_sink" ELSE "drain_mic"
    /\ UNCHANGED <<cfgVars, unitVars, stop_event, stateVars, caller_pc, worker_exc,
                   streamVars, micVars, lbVars, queueVars, mixerVars,
                   sinkVars, accepted_at_stop>>

\* one mic_queue.get_nowait(): a chunk, or Empty
DrainMic ==
    /\ worker_pc = "drain_mic"
    /\ IF mic_queue # <<>>
       THEN /\ mic_buffer' = mic_buffer \o Head(mic_queue)
            /\ mic_queue' = Tail(mic_queue)
            /\ UNCHANGED worker_pc
       ELSE /\ worker_pc' = "drain_loopback"
            /\ UNCHANGED <<mic_buffer, mic_queue>>
    /\ UNCHANGED <<cfgVars, unitVars, stop_event, stateVars, caller_pc, worker_exc,
                   streamVars, micVars, lbVars, loopback_queue,
                   loopback_buffer, mic_rms_history, loopback_rms_history,
                   aec_processor, cycle, sinkVars, accepted_at_stop>>

\* Mutant: a drained chunk is put in front of the buffered samples.
DrainLoopbackPrepends ==
    /\ worker_pc = "drain_loopback"
    /\ IF loopback_queue # <<>>
       THEN /\ loopback_buffer' = Head(loopback_queue) \o loopback_buffer
            /\ loopback_queue' = Tail(loopback_queue)
            /\ UNCHANGED worker_pc
       ELSE /\ worker_pc' = "decide"
            /\ UNCHANGED <<loopback_buffer, loopback_queue>>
    /\ UNCHANGED <<cfgVars, unitVars, stop_event, stateVars, caller_pc,
                   worker_exc, streamVars, micVars, lbVars, mic_queue,
                   mic_buffer, mic_rms_history, loopback_rms_history,
                   aec_processor, cycle, sinkVars, accepted_at_stop>>

\* one loopback_queue.get_nowait(): a chunk, or Empty
DrainLoopback ==
    /\ worker_pc = "drain_loopback"
    /\ IF loopback_queue # <<>>
       THEN /\ loopback_buffer' = loopback_buffer \o Head(loopback_queue)
            /\ loopback_queue' = Tail(loopback_queue)
            /\ UNCHANGED worker_pc
       ELSE /\ worker_pc' = "decide"
            /\ UNCHANGED <<loopback_buffer, loopback_queue>>
    /\ UNCHANGED <<cfgVars, unitVars, stop_event, stateVars, caller_pc, worker_exc,
                   streamVars, micVars, lbVars, mic_queue, mic_buffer,
                   mic_rms_history, loopback_rms_history, aec_processor,
                   cycle, sinkVars, accepted_at_stop>>

\* `if loopback_buffer:` taken: lines 441-507, up to the packed frame
MixerAssemble ==
    /\ worker_pc = "decide"
    /\ HasOutput(loopback_buffer)
    /\ \E mode \in (IF aec_processor.present THEN CancelModes ELSE {"pass"}) :
       \E chunk_size \in {Len(loopback_buffer)} :
       \E mic_slice \in {TakeMic(mic_buffer, chunk_size)} :
       \E p \in {process_samples(aec_processor, mic_slice, loopback_buffer,
                                mode)} :
       \E mic_chunk \in {IF aec_processor.present THEN p.result
                         ELSE mic_slice} :
       \E mh \in {TrackRms(mic_rms_history, mic_chunk, MicNoiseFloor)} :
       \E lh \in {TrackRms(loopback_rms_history, loopback_buffer,
                           LoopbackNoiseFloor)} :
       \E mic_out \in {Normalize(mic_chunk, mh, mic_target_rms, MicGainMax,
                                 session.mic_gain)} :
       \E loop_out \in {Normalize(loopback_buffer, lh, loopback_target_rms,
                                  LoopbackGainMax, session.loopback_gain)} :
       \E output_samples \in {StereoSamples(chunk_size, mic_out, loop_out,
                                             session.stereo_split,
                                             session.mix_ratio)} :
       \E clamped \in {Clamped(output_samples)} :
         /\ mic_buffer' = RestMic(mic_buffer, chunk_size)
         /\ loopback_buffer' = <<>>
         /\ aec_processor' = IF aec_processor.present
                             THEN [present    |-> TRUE,
                                   mic_buffer |-> p.mic_buffer,
                                   ref_buffer |-> p.ref_buffer]
                             ELSE aec_processor
         /\ mic_rms_history' = mh
         /\ loopback_rms_history' = lh
         /\ cycle' = [chunk_size     |-> chunk_size,
                      mic_buffered   |-> mic_buffer,
                      mic_slice      |-> mic_slice,
                      mic_chunk      |-> mic_chunk,
                      loopback_chunk |-> loopback_buffer,
                      output_data    |-> pack(clamped)]
    /\ worker_pc' = "write"
    /\ UNCHANGED <<cfgVars, unitVars, stop_event, stateVars, caller_pc, worker_exc,
                   streamVars, micVars, lbVars, queueVars, sinkVars,
                   accepted_at_stop>>

\* `else: time.sleep(0.001)`
MixerSleep ==
    /\ worker_pc = "decide"
    /\ ~HasOutput(loopback_buffer)
    /\ worker_pc' = "loop_test"
    /\ UNCHANGED <<cfgVars, unitVars, stop_event, stateVars, caller_pc, worker_exc,
                   streamVars, micVars, lbVars, queueVars, mixerVars,
                   sinkVars, accepted_at_stop>>

\* write_func(output_data) returns
MixerWrite ==
    /\ worker_pc = "write"
    /\ sink' = Append(sink, cycle.output_data)
    /\ worker_pc' = "on_chunk"
    /\ UNCHANGED <<cfgVars, unitVars, stop_event, stateVars, caller_pc, worker_exc,
                   streamVars, micVars, lbVars, queueVars, mixerVars,
                   sink_state, accepted_at_stop>>

\* write_func(output_data) raises; leaving `with wave.open` closes the file,
\* a writer passed in is left as it is
MixerWriteRaises ==
    /\ worker_pc = "write"
    /\ RaiseInDual("IoError")
    /\ sink_state' = IF session.direct_mp3 THEN sink_state ELSE "closed"
    /\ UNCHANGED <<cfgVars, unitVars, stop_event, stateVars, caller_pc, streamVars,
                   micVars, lbVars, queueVars, mixerVars, sink,
                   accepted_at_stop>>

\* Mutant: the observer is called twice per frame.
OnChunkTwice ==
    /\ worker_pc = "on_chunk"
    /\ bytes_recorded' = bytes_recorded + 2 * Len(cycle.output_data)
    /\ worker_pc' = "loop_test"
    /\ UNCHANGED <<cfgVars, unitVars, stop_event, is_recording, error,
                   caller_pc, worker_exc, streamVars, micVars, lbVars,
                   queueVars, mixerVars, sinkVars, accepted_at_stop>>

\* on_chunk(output_data): session.state.bytes_recorded += len(data)
OnChunk ==
    /\ worker_pc = "on_chunk"
    /\ bytes_recorded' = bytes_recorded + Len(cycle.output_data)
    /\ worker_pc' = "loop_test"
    /\ UNCHANGED <<cfgVars, unitVars, stop_event, is_recording, error, caller_pc,
                   worker_exc, streamVars, micVars, lbVars, queueVars,
                   mixerVars, sinkVars, accepted_at_stop>>

\* after recording_loop returned: writer.close(), or the end of the
\* `with wave.open` block
CloseSink ==
    /\ worker_pc = "close_sink"
    /\ sink_state' = "closed"
    /\ worker_pc' = "join_mic"
    /\ UNCHANGED <<cfgVars, unitVars, stop_event, stateVars, caller_pc, worker_exc,
                   streamVars, micVars, lbVars, queueVars, mixerVars, sink,
                   accepted_at_stop>>

\* mic_thread.join(timeout=1.0): the thread ended, or the timeout elapsed
JoinMic ==
    /\ worker_pc = "join_mic"
    /\ worker_pc' = "join_loopback"
    /\ UNCHANGED <<cfgVars, unitVars, stop_event, stateVars, caller_pc, worker_exc,
                   streamVars, micVars, lbVars, queueVars, mixerVars,
                   sinkVars, accepted_at_stop>>

\* loopback_thread.join(timeout=1.0)
JoinLoopback ==
    /\ worker_pc = "join_loopback"
    /\ worker_pc' = "close_streams"
    /\ UNCHANGED <<cfgVars, unitVars, stop_event, stateVars, caller_pc, worker_exc,
                   streamVars, micVars, lbVars, queueVars, mixerVars,
                   sinkVars, accepted_at_stop>>

\* Mutant: the finally clause closes the mic stream only.
CloseStreamsMicOnly ==
    /\ worker_pc = "close_streams"
    /\ mic_stream' = FALSE
    /\ worker_pc' = IF worker_exc = None THEN "finally" ELSE "except"
    /\ UNCHANGED <<cfgVars, unitVars, stop_event, stateVars, caller_pc,
                   worker_exc, loopback_stream, micVars, lbVars, queueVars,
                   mixerVars, sinkVars, accepted_at_stop>>

\* `finally: mic_stream.close(); loopback_stream.close()`
CloseStreams ==
    /\ worker_pc = "close_streams"
    /\ mic_stream' = FALSE
    /\ loopback_stream' = FALSE
    /\ worker_pc' = IF worker_exc = None THEN "finally" ELSE "except"
    /\ UNCHANGED <<cfgVars, unitVars, stop_event, stateVars, caller_pc, worker_exc,
                   micVars, lbVars, queueVars, mixerVars, sinkVars,
                   accepted_at_stop>>

\* record_worker: `except Exception as e: session.state.error = str(e)`
WorkerExcept ==
    /\ worker_pc = "except"
    /\ error' = worker_exc
    /\ worker_pc' = "finally"
    /\ UNCHANGED <<cfgVars, unitVars, stop_event, is_recording, bytes_recorded,
                   caller_pc, worker_exc, streamVars, micVars, lbVars,
                   queueVars, mixerVars, sinkVars, accepted_at_stop>>

\* record_worker: `finally: session.state.is_recording = False`
WorkerFinally ==
    /\ worker_pc = "finally"
    /\ is_recording' = FALSE
    /\ worker_pc' = "done"
    /\ UNCHANGED <<cfgVars, unitVars, stop_event, bytes_recorded, error, caller_pc,
                   worker_exc, streamVars, micVars, lbVars, queueVars,
                   mixerVars, sinkVars, accepted_at_stop>>

Worker ==
    \/ MakeWriter
    \/ Setup
    \/ OpenMic
    \/ OpenLoopback
    \/ StartThreads
    \/ OpenWave
    \/ MixerLoopTest
    \/ DrainMic
    \/ DrainLoopback
    \/ MixerAssemble
    \/ MixerSleep
    \/ MixerWrite
    \/ MixerWriteRaises
    \/ OnChunk
    \/ CloseSink
    \/ JoinMic
    \/ JoinLoopback
    \/ CloseStreams
    \/ WorkerExcept
    \/ WorkerFinally

Next == Caller \/ MicReader \/ LoopbackReader \/ Worker

Spec == Init /\ [][Next]_vars

(***************************************************************************)
(* record_worker running record_to_file (wasapi.py 168-232): one device,   *)
(* read and written by the worker thread itself.  The device of a MIC      *)
(* session is the mic stream, that of a LOOPBACK session the loopback      *)
(* stream; the chunk read is held in cycle.output_data until it is written.*)
(***************************************************************************)
SingleStream == IF session.mode = "MIC" THEN mic_stream ELSE loopback_stream

SingleReads == IF session.mode = "MIC" THEN mic_reads ELSE loopback_reads

SingleData(r) == IF session.mode = "MIC" THEN MicData(r) ELSE LoopbackData(r)

\* stream.open() / stream.close() on the session's device
SetSingleStream(open) ==
    IF session.mode = "MIC"
    THEN mic_stream' = open /\ UNCHANGED loopback_stream
    ELSE loopback_stream' = open /\ UNCHANGED mic_stream

\* Mutant: the handler drops the failure whether or not cancellation is set.
SingleHandlerSwallows(exc) ==
    /\ worker_pc' = "single_close_sink"
    /\ UNCHANGED <<worker_exc, sink_state>>

\* `except Exception: if stop_event.is_set(): break` / `raise` around the
\* read, the write and the callback: after cancellation the failure is
\* dropped and the loop left; before, it goes on to `finally` (closing the
\* file of the `with wave.open` block on the way, but not a writer passed in)
SingleHandler(exc) ==
    IF stop_event
    THEN /\ worker_pc' = "single_close_sink"
         /\ UNCHANGED <<worker_exc, sink_state>>
    ELSE /\ worker_exc' = exc
         /\ sink_state' = IF session.direct_mp3 THEN sink_state ELSE "closed"
         /\ worker_pc' = "single_close_stream"

\* lines 191-192: create_stream and stream.open(), outside the try block
SingleOpen ==
    /\ worker_pc = "single_open"
    /\ \E ok \in BOOLEAN :
         IF ok
         THEN /\ SetSingleStream(TRUE)
              /\ worker_pc' = IF session.direct_mp3 THEN "single_test"
                              ELSE "single_open_wave"
              /\ UNCHANGED worker_exc
         ELSE /\ worker_exc' = "StreamError"
              /\ worker_pc' = "except"
              /\ UNCHANGED streamVars
    /\ UNCHANGED <<cfgVars, unitVars, stop_event, stateVars, caller_pc,
                   micVars, lbVars, queueVars, mixerVars, sinkVars,
                   accepted_at_stop>>

\* line 216: wave.open(output_path, "wb")
SingleOpenWave ==
    /\ worker_pc = "single_open_wave"
    /\ \E ok \in BOOLEAN :
         IF ok
         THEN /\ sink_state' = "open"
              /\ worker_pc' = "single_test"
              /\ UNCHANGED worker_exc
         ELSE /\ worker_exc' = "IoError"
              /\ worker_pc' = "single_close_stream"
              /\ UNCHANGED sink_state
    /\ UNCHANGED <<cfgVars, unitVars, stop_event, stateVars, caller_pc,
                   streamVars, micVars, lbVars, queueVars, mixerVars, sink,
                   accepted_at_stop>>

\* `while not stop_event.is_set()`, lines 203 and 221
SingleLoopTest ==
    /\ worker_pc = "single_test"
    /\ worker_pc' = IF stop_event THEN "single_close_sink" ELSE "single_read"
    /\ UNCHANGED <<cfgVars, unitVars, stop_event, stateVars, caller_pc,
                   worker_exc, streamVars, micVars, lbVars, queueVars,
                   mixerVars, sinkVars, accepted_at_stop>>

\* data = stream.read() returns a chunk
SingleRead ==
    /\ worker_pc = "single_read"
    /\ SingleStream
    /\ SingleReads < (IF session.mode = "MIC" THEN read_budget.mic
                                              ELSE read_budget.loopback)
    /\ cycle' = [NoCycle EXCEPT !.output_data = SingleData(SingleReads + 1)]
    /\ IF session.mode = "MIC"
       THEN mic_reads' = mic_reads + 1 /\ UNCHANGED loopback_reads
       ELSE loopback_reads' = loopback_reads + 1 /\ UNCHANGED mic_reads
    /\ worker_pc' = "single_write"
    /\ UNCHANGED <<cfgVars, unitVars, stop_event, stateVars, caller_pc,
                   worker_exc, streamVars, mic_pc, mic_dropped, loopback_pc,
                   loopback_dropped, queueVars, mic_buffer, loopback_buffer,
                   mic_rms_history, loopback_rms_history, aec_processor,
                   sinkVars, accepted_at_stop>>

\* stream.read() raises
SingleReadRaises ==
    /\ worker_pc = "single_read"
    /\ SingleHandler("ReadError")
    /\ UNCHANGED <<cfgVars, unitVars, stop_event, stateVars, caller_pc,
                   streamVars, micVars, lbVars, queueVars, mixerVars, sink,
                   accepted_at_stop>>

\* writer.write(data) / wf.writeframes(data) returns
SingleWrite ==
    /\ worker_pc = "single_write"
    /\ sink' = Append(sink, cycle.output_data)
    /\ worker_pc' = "single_on_chunk"
    /\ UNCHANGED <<cfgVars, unitVars, stop_event, stateVars, caller_pc,
                   worker_exc, streamVars, micVars, lbVars, queueVars,
                   mixerVars, sink_state, accepted_at_stop>>

\* writer.write(data) / wf.writeframes(data) raises
SingleWriteRaises ==
    /\ worker_pc = "single_write"
    /\ SingleHandler("IoError")
    /\ UNCHANGED <<cfgVars, unitVars, stop_event, stateVars, caller_pc,
                   streamVars, micVars, lbVars, queueVars, mixerVars, sink,
                   accepted_at_stop>>

\* on_chunk(data): session.state.bytes_recorded += len(data)
SingleOnChunk ==
    /\ worker_pc = "single_on_chunk"
    /\ bytes_recorded' = bytes_recorded + Len(cycle.output_data)
    /\ worker_pc' = "single_test"
    /\ UNCHANGED <<cfgVars, unitVars, stop_event, is_recording, error,
                   caller_pc, worker_exc, streamVars, micVars, lbVars,
                   queueVars, mixerVars, sinkVars, accepted_at_stop>>

\* after the loop: writer.close(), or the end of the `with wave.open` block
SingleCloseSink ==
    /\ worker_pc = "single_close_sink"
    /\ sink_state' = "closed"
    /\ worker_pc' = "single_close_stream"
    /\ UNCHANGED <<cfgVars, unitVars, stop_event, stateVars, caller_pc,
                   worker_exc, streamVars, micVars, lbVars, queueVars,
                   mixerVars, sink, accepted_at_stop>>

\* `finally: stream.close()`
SingleCloseStream ==
    /\ worker_pc = "single_close_stream"
    /\ SetSingleStream(FALSE)
    /\ worker_pc' = IF worker_exc = None THEN "finally" ELSE "except"
    /\ UNCHANGED <<cfgVars, unitVars, stop_event, stateVars, caller_pc,
                   worker_exc, micVars, lbVars, queueVars, mixerVars,
                   sinkVars, accepted_at_stop>>

SingleWorker ==
    \/ MakeWriter
    \/ SingleOpen
    \/ SingleOpenWave
    \/ SingleLoopTest
    \/ SingleRead
    \/ SingleReadRaises
    \/ SingleWrite
    \/ SingleWriteRaises
    \/ SingleOnChunk
    \/ SingleCloseSink
    \/ SingleCloseStream
    \/ WorkerExcept
    \/ WorkerFinally

\* Every recording mode: the single-source sessions, and the dual-source
\* sessions of the `start` command's defaults with and without direct MP3,
\* the latter on devices that deliver MaxModeReads chunks.
AnyModeSessions ==
    SingleSessions \cup {s \in Sessions : s.stereo_split /\ ~s.aec_enabled}

AnyModeInit ==
    /\ session \in AnyModeSessions
    /\ aec_available = TRUE
    /\ read_budget = IF session.mode = "BOTH"
                     THEN [mic |-> MaxModeReads, loopback |-> MaxModeReads]
                     ELSE [mic |-> MaxReads, loopback |-> MaxReads]
    /\ Created

AnyModeNext == Next \/ SingleWorker

AnyModeSpec == AnyModeInit /\ [][AnyModeNext]_vars

(***************************************************************************)
(* Session creation: the `start` command (record.py 72-217) and a caller   *)
(* of AudioCapture.create_session (audio_capture.py 90-162), on a machine  *)
(* where either device may be missing and lameenc may not be installed.    *)
(***************************************************************************)
\* `session: RecordingSession | None = None`
NoSession == [mode |-> "none"]

\* record.py 104-123: the mode the --loopback and --mic flags select
RecordingModeOf(loopback, mic) ==
    IF loopback /\ mic THEN "BOTH" ELSE IF mic THEN "MIC" ELSE "LOOPBACK"

\* The callers: the command with its flags, --format and --keep-wav, which
\* leaves direct_mp3 at its default, and a direct caller of create_session.
\* encoded is what encode_to_mp3 returned, mp3_file what it left at
\* mp3_path, wav_removed whether wav_path.unlink() was done, saved the file
\* printed as "Saved to".
Commands ==
    {[entry |-> "cli", mode |-> RecordingModeOf(l, m), mp3 |-> f,
      keep_wav |-> k,
      direct_mp3 |-> FALSE, mic_found |-> mf, loopback_found |-> lf,
      lameenc |-> e, create |-> "none", printed |-> None,
      exit_code |-> None, terminated |-> FALSE, encoded |-> None,
      mp3_file |-> "absent", wav_removed |-> FALSE, saved |-> None] :
        l \in BOOLEAN, m \in BOOLEAN, f \in BOOLEAN, k \in BOOLEAN,
        mf \in BOOLEAN, lf \in BOOLEAN, e \in BOOLEAN}
    \cup
    {[entry |-> "api", mode |-> md, mp3 |-> d, keep_wav |-> FALSE,
      direct_mp3 |-> d,
      mic_found |-> mf, loopback_found |-> lf, lameenc |-> e,
      create |-> "none", printed |-> None, exit_code |-> None,
      terminated |-> FALSE, encoded |-> None, mp3_file |-> "absent",
      wav_removed |-> FALSE, saved |-> None] :
        md \in {"MIC", "LOOPBACK", "BOTH"}, d \in BOOLEAN, mf \in BOOLEAN,
        lf \in BOOLEAN, e \in BOOLEAN}

\* Mutant: the session is returned whether or not its devices were found.
create_session_unchecked(mode, direct_mp3, mic_found, loopback_found) ==
    [raised |-> None,
     session |-> [mode |-> mode,
                  mic_device |-> mode \in {"MIC", "BOTH"} /\ mic_found,
                  loopback_device |->
                      mode \in {"LOOPBACK", "BOTH"} /\ loopback_found,
                  stereo_split |-> TRUE, aec_enabled |-> FALSE,
                  direct_mp3 |-> direct_mp3, mic_gain |-> <<1, 1>>,
                  loopback_gain |-> <<1, 1>>, mix_ratio |-> <<1, 2>>]]

\* create_session, lines 126-162: what it raises, or the session it returns
create_session(mode, direct_mp3, mic_found, loopback_found) ==
    IF mode \in {"MIC", "BOTH"} /\ ~mic_found
    THEN [raised |-> "No microphone device found", session |-> NoSession]
    ELSE IF mode \in {"LOOPBACK", "BOTH"} /\ ~loopback_found
    THEN [raised |-> "No loopback device found", session |-> NoSession]
    ELSE [raised |-> None,
          session |-> [mode |-> mode,
                       mic_device |-> mode \in {"MIC", "BOTH"},
                       loopback_device |-> mode \in {"LOOPBACK", "BOTH"},
                       stereo_split |-> TRUE, aec_enabled |-> FALSE,
                       direct_mp3 |-> direct_mp3, mic_gain |-> <<1, 1>>,
                       loopback_gain |-> <<1, 1>>, mix_ratio |-> <<1, 2>>]]

\* record.py 98-101: "Check lameenc availability for MP3 format", before
\* the AudioCapture exists
CheckMp3 ==
    /\ caller_pc = "check_mp3"
    /\ IF command.mp3 /\ ~is_mp3_available
       THEN /\ command' = [command EXCEPT
                             !.printed = "lameenc is required for MP3 output.",
                             !.exit_code = 1]
            /\ caller_pc' = "exited"
       ELSE /\ caller_pc' = "create"
            /\ UNCHANGED command
    /\ UNCHANGED session
    /\ UNCHANGED <<aec_available, read_budget, unitVars, stop_event, stateVars,
                   workerVars, streamVars, micVars, lbVars, queueVars,
                   mixerVars, sinkVars, accepted_at_stop>>

\* record.py 141-147, or the direct call: a RuntimeError reaches the
\* command's handler, or the caller
CallCreateSession ==
    /\ caller_pc = "create"
    /\ \E r \in {create_session(command.mode, command.direct_mp3,
                                command.mic_found, command.loopback_found)} :
         IF r.raised # None
         THEN /\ command' = [command EXCEPT !.create = r.raised]
              /\ caller_pc' = IF command.entry = "cli" THEN "handler"
                              ELSE "raised"
              /\ UNCHANGED session
         ELSE /\ command' = [command EXCEPT !.create = "returned"]
              /\ session' = r.session
              /\ caller_pc' = "created"
    /\ UNCHANGED <<aec_available, read_budget, unitVars, stop_event, stateVars,
                   workerVars, streamVars, micVars, lbVars, queueVars,
                   mixerVars, sinkVars, accepted_at_stop>>

\* Mutant: the handler prints nothing and the command exits with code 0.
HandleRuntimeErrorQuietly ==
    /\ caller_pc = "handler"
    /\ command' = [command EXCEPT !.exit_code = 0]
    /\ caller_pc' = "finally"
    /\ UNCHANGED session
    /\ UNCHANGED <<aec_available, read_budget, unitVars, stop_event, stateVars,
                   workerVars, streamVars, micVars, lbVars, queueVars,
                   mixerVars, sinkVars, accepted_at_stop>>

\* record.py 209-211: `except RuntimeError as e`
HandleRuntimeError ==
    /\ caller_pc = "handler"
    /\ command' = [command EXCEPT !.printed = command.create,
                                  !.exit_code = 1]
    /\ caller_pc' = "finally"
    /\ UNCHANGED session
    /\ UNCHANGED <<aec_available, read_budget, unitVars, stop_event, stateVars,
                   workerVars, streamVars, micVars, lbVars, queueVars,
                   mixerVars, sinkVars, accepted_at_stop>>

\* Mutant: the WAV file is removed whatever encode_to_mp3 returned and
\* whatever --keep-wav says.
ConvertToMp3ThenRemove ==
    /\ command.entry = "cli"
    /\ caller_pc = "complete_reported"
    /\ IF ~command.mp3
       THEN /\ command' = [command EXCEPT !.saved = "wav", !.exit_code = 0]
            /\ caller_pc' = "finally"
       ELSE /\ \E ok \in IF sink_state = "none" THEN {FALSE} ELSE BOOLEAN :
                 command' = [command EXCEPT
                               !.encoded = IF ok THEN "True" ELSE "False",
                               !.mp3_file = IF ok THEN "written" ELSE @]
            /\ caller_pc' = "unlink"
    /\ UNCHANGED session
    /\ UNCHANGED <<aec_available, read_budget, unitVars, stop_event, stateVars,
                   workerVars, streamVars, micVars, lbVars, queueVars,
                   mixerVars, sinkVars, accepted_at_stop>>

\* record.py 192-207: "Convert to MP3 if requested".  encode_to_mp3
\* (encoder.py 21-62) returns False when it cannot read the WAV file or
\* fails while encoding or writing, and then may leave a partial file
ConvertToMp3 ==
    /\ command.entry = "cli"
    /\ caller_pc = "complete_reported"
    /\ IF ~command.mp3
       THEN /\ command' = [command EXCEPT !.saved = "wav", !.exit_code = 0]
            /\ caller_pc' = "finally"
       ELSE \E ok \in IF sink_state = "none" THEN {FALSE} ELSE BOOLEAN :
              IF ok
              THEN /\ command' =
                        [command EXCEPT
                           !.encoded = "True",
                           !.mp3_file = "written",
                           !.saved = IF command.keep_wav THEN "mp3" ELSE @,
                           !.exit_code = IF command.keep_wav THEN 0 ELSE @]
                   /\ caller_pc' = IF command.keep_wav THEN "finally"
                                   ELSE "unlink"
              ELSE /\ \E left \in {"absent", "partial"} :
                        command' =
                          [command EXCEPT
                             !.encoded = "False",
                             !.mp3_file = left,
                             !.printed =
                                 "MP3 conversion failed, keeping WAV file",
                             !.saved = "wav",
                             !.exit_code = 0]
                   /\ caller_pc' = "finally"
    /\ UNCHANGED session
    /\ UNCHANGED <<aec_available, read_budget, unitVars, stop_event, stateVars,
                   workerVars, streamVars, micVars, lbVars, queueVars,
                   mixerVars, sinkVars, accepted_at_stop>>

\* record.py 199-201: wav_path.unlink(); an OSError is caught by no
\* handler of the command
RemoveWav ==
    /\ caller_pc = "unlink"
    /\ \E ok \in BOOLEAN :
         command' = IF ok
                    THEN [command EXCEPT !.wav_removed = TRUE,
                                         !.saved = "mp3",
                                         !.exit_code = 0]
                    ELSE [command EXCEPT !.exit_code = 1]
    /\ caller_pc' = "finally"
    /\ UNCHANGED session
    /\ UNCHANGED <<aec_available, read_budget, unitVars, stop_event, stateVars,
                   workerVars, streamVars, micVars, lbVars, queueVars,
                   mixerVars, sinkVars, accepted_at_stop>>

\* record.py 177-180 and 215-217: Exit(1) on a recording error, and
\* `finally: if audio_capture: audio_capture.terminate()`
Terminate ==
    /\ command.entry = "cli"
    /\ caller_pc \in {"finally", "error_reported"}
    /\ command' = [command EXCEPT
                     !.terminated = TRUE,
                     !.exit_code = IF caller_pc = "finally" THEN @ ELSE 1]
    /\ caller_pc' = "exited"
    /\ UNCHANGED session
    /\ UNCHANGED <<aec_available, read_budget, unitVars, stop_event, stateVars,
                   workerVars, streamVars, micVars, lbVars, queueVars,
                   mixerVars, sinkVars, accepted_at_stop>>

CommandInit ==
    /\ command \in Commands
    /\ session = NoSession
    /\ aec_available = TRUE
    /\ read_budget = IF command.mode = "BOTH"
                     THEN [mic |-> MaxModeReads, loopback |-> MaxModeReads]
                     ELSE [mic |-> MaxReads, loopback |-> MaxReads]
    /\ caller_pc = IF command.entry = "cli" THEN "check_mp3" ELSE "create"
    /\ Unstarted
    /\ adapter = NoAdapter
    /\ stage = NoStage

CommandNext ==
    \/ CheckMp3
    \/ CallCreateSession
    \/ HandleRuntimeError
    \/ ConvertToMp3
    \/ RemoveWav
    \/ Terminate
    \/ AnyModeNext

CommandSpec == CommandInit /\ [][CommandNext]_vars

(***************************************************************************)
(* A caller of AudioCapture that calls start_recording more than once on   *)
(* a session, and may have called session.request_stop() before the first  *)
(* call (audio_capture.py 44-46, 164-251).  command.started_stopped        *)
(* records whether stop_event was set when the current worker was started. *)
(***************************************************************************)
RestartInit ==
    /\ session \in AnyModeSessions
    /\ aec_available = TRUE
    /\ read_budget = [mic |-> MaxModeReads, loopback |-> MaxModeReads]
    /\ stop_event \in BOOLEAN
    /\ command = [entry |-> "api", lameenc |-> TRUE,
                  started_stopped |-> stop_event]
    /\ accepted_at_stop = IF stop_event THEN 0 ELSE -1
    /\ is_recording = FALSE
    /\ bytes_recorded = 0
    /\ error = None
    /\ caller_pc = "created"
    /\ worker_pc = "unstarted"
    /\ worker_exc = None
    /\ mic_stream = FALSE
    /\ loopback_stream = FALSE
    /\ mic_pc = "unstarted"
    /\ loopback_pc = "unstarted"
    /\ mic_reads = 0
    /\ loopback_reads = 0
    /\ mic_dropped = 0
    /\ loopback_dropped = 0
    /\ mic_queue = <<>>
    /\ loopback_queue = <<>>
    /\ mic_buffer = <<>>
    /\ loopback_buffer = <<>>
    /\ mic_rms_history = <<>>
    /\ loopback_rms_history = <<>>
    /\ aec_processor = NoAec
    /\ cycle = NoCycle
    /\ sink = <<>>
    /\ sink_state = "none"
    /\ adapter = NoAdapter
    /\ stage = NoStage

\* start_recording, lines 166-167: "Recording is already in progress"
StartRecordingRaises ==
    /\ caller_pc \in {"waiting", "finished"}
    /\ is_recording
    /\ caller_pc' = "start_raised"
    /\ UNCHANGED <<cfgVars, unitVars, stop_event, stateVars, workerVars,
                   streamVars, micVars, lbVars, queueVars, mixerVars,
                   sinkVars, accepted_at_stop>>

\* The caller goes back to polling state.is_recording.
ResumeWait ==
    /\ caller_pc = "start_raised"
    /\ caller_pc' = "waiting"
    /\ UNCHANGED <<cfgVars, unitVars, stop_event, stateVars, workerVars,
                   streamVars, micVars, lbVars, queueVars, mixerVars,
                   sinkVars, accepted_at_stop>>

\* Mutant: start_recording does not look at state.is_recording.
StartRecordingAgainUnchecked ==
    /\ caller_pc \in {"finished", "error_reported", "complete_reported"}
    /\ mic_pc \in {"unstarted", "done"}
    /\ loopback_pc \in {"unstarted", "done"}
    /\ is_recording' = TRUE
    /\ bytes_recorded' = 0
    /\ error' = None
    /\ command' = [command EXCEPT !.started_stopped = stop_event]
    /\ caller_pc' = "waiting"
    /\ worker_pc' = "make_writer"
    /\ worker_exc' = None
    /\ mic_pc' = "unstarted"
    /\ loopback_pc' = "unstarted"
    /\ mic_reads' = 0
    /\ loopback_reads' = 0
    /\ mic_dropped' = 0
    /\ loopback_dropped' = 0
    /\ cycle' = NoCycle
    /\ sink' = <<>>
    /\ sink_state' = "none"
    /\ UNCHANGED <<session, aec_available, read_budget, unitVars, stop_event,
                   streamVars, queueVars, mic_buffer, loopback_buffer,
                   mic_rms_history, loopback_rms_history, aec_processor,
                   accepted_at_stop>>

\* start_recording on a session whose worker has run, lines 166-173 and
\* 250-251, once the reader threads of the run before have ended: a new
\* thread, new streams and a new output file
StartRecordingAgain ==
    /\ caller_pc \in {"finished", "error_reported", "complete_reported"}
    /\ ~is_recording
    /\ mic_pc \in {"unstarted", "done"}
    /\ loopback_pc \in {"unstarted", "done"}
    /\ is_recording' = TRUE
    /\ bytes_recorded' = 0
    /\ error' = None
    /\ command' = [command EXCEPT !.started_stopped = stop_event]
    /\ caller_pc' = "waiting"
    /\ worker_pc' = "make_writer"
    /\ worker_exc' = None
    /\ mic_pc' = "unstarted"
    /\ loopback_pc' = "unstarted"
    /\ mic_reads' = 0
    /\ loopback_reads' = 0
    /\ mic_dropped' = 0
    /\ loopback_dropped' = 0
    /\ cycle' = NoCycle
    /\ sink' = <<>>
    /\ sink_state' = "none"
    /\ UNCHANGED <<session, aec_available, read_budget, unitVars, stop_event,
                   streamVars, queueVars, mic_buffer, loopback_buffer,
                   mic_rms_history, loopback_rms_history, aec_processor,
                   accepted_at_stop>>

RestartNext ==
    \/ StartRecordingRaises
    \/ ResumeWait
    \/ StartRecordingAgain
    \/ AnyModeNext

RestartSpec == RestartInit /\ [][RestartNext]_vars

(***************************************************************************)
(* An AECProcessor driven directly (aec_processor.py 30-180): constructed, *)
(* then any sequence of up to MaxAdapterOps calls of process_samples,      *)
(* flush and reset.  The k-th mic sample ever fed is 100 + k, the k-th     *)
(* reference sample 200 + k; `calls` counts the invocations of cancel;     *)
(* `since` holds the three counters as they were when the adapter was last *)
(* emptied (constructed, flushed or reset).  No recording runs.            *)
(***************************************************************************)
\* The lengths of the lists fed: nothing, less than a frame, two frames.
FeedLengths == {0, FrameSize - 1, 2 * FrameSize}

Feed(base, fed, n) == [i \in 1..n |-> base + fed + i]

\* __init__, lines 71-73
NewAdapter ==
    [op |-> "init", ops |-> 0,
     mic_buffer |-> <<>>, ref_buffer |-> <<>>, output_buffer |-> <<>>,
     result |-> <<>>, mic_fed |-> 0, ref_fed |-> 0, calls |-> 0,
     since |-> [mic |-> 0, ref |-> 0, calls |-> 0]]

UnitIdle ==
    /\ session \in {s \in Sessions :
                      s.stereo_split /\ ~s.aec_enabled /\ ~s.direct_mp3}
    /\ aec_available = TRUE
    /\ read_budget = [mic |-> MaxReads, loopback |-> MaxReads]
    /\ Idle

\* process_samples(mic_samples, ref_samples), lines 103-125
AdapterProcess ==
    /\ adapter.ops < MaxAdapterOps
    /\ \E m \in FeedLengths, r \in FeedLengths, mode \in CancelModes :
       \E p \in {ProcessFrames(
                     adapter.mic_buffer \o Feed(100, adapter.mic_fed, m),
                     adapter.ref_buffer \o Feed(200, adapter.ref_fed, r),
                     adapter.output_buffer, adapter.calls, mode)} :
         adapter' = [adapter EXCEPT
                       !.op = "process_samples",
                       !.ops = @ + 1,
                       !.mic_buffer = p.mic_buffer,
                       !.ref_buffer = p.ref_buffer,
                       !.output_buffer = <<>>,
                       !.result = p.result,
                       !.mic_fed = @ + m,
                       !.ref_fed = @ + r,
                       !.calls = p.calls]
    /\ UNCHANGED <<cfgVars, stage, stop_event, stateVars, caller_pc,
                   workerVars, streamVars, micVars, lbVars, queueVars,
                   mixerVars, sinkVars, accepted_at_stop>>

\* What a call that empties the adapter leaves in it.
Emptied(a, op, f) ==
    [a EXCEPT !.op = op,
              !.ops = @ + 1,
              !.mic_buffer = f.mic_buffer,
              !.ref_buffer = f.ref_buffer,
              !.output_buffer = f.output_buffer,
              !.result = f.result,
              !.since = [mic |-> a.mic_fed, ref |-> a.ref_fed,
                         calls |-> a.calls]]

\* flush()
AdapterFlush ==
    /\ adapter.ops < MaxAdapterOps
    /\ adapter' = Emptied(adapter, "flush", flush(adapter))
    /\ UNCHANGED <<cfgVars, stage, stop_event, stateVars, caller_pc,
                   workerVars, streamVars, micVars, lbVars, queueVars,
                   mixerVars, sinkVars, accepted_at_stop>>

\* reset()
AdapterReset ==
    /\ adapter.ops < MaxAdapterOps
    /\ adapter' = Emptied(adapter, "reset", reset(adapter))
    /\ UNCHANGED <<cfgVars, stage, stop_event, stateVars, caller_pc,
                   workerVars, streamVars, micVars, lbVars, queueVars,
                   mixerVars, sinkVars, accepted_at_stop>>

AdapterInit == UnitIdle /\ adapter = NewAdapter /\ stage = NoStage

AdapterNext == AdapterProcess \/ AdapterFlush \/ AdapterReset

AdapterSpec == AdapterInit /\ [][AdapterNext]_vars

(***************************************************************************)
(* The stages of one mixer cycle applied alone (wasapi.py 356-367 and      *)
(* 460-506), on slices of up to MaxStageLen samples.  A mic slice may hold *)
(* any integer (it may come from the echo-cancellation service); loopback  *)
(* samples are 16-bit.  Mix ratios are dyadic, so that the floating-point  *)
(* arithmetic of the mix is exact.  The slices normalised hold samples     *)
(* below and above the noise floors.  No recording runs.                   *)
(***************************************************************************)
StageValues == {-40000, Int16Min, -3, 41, Int16Max, 40000}

LevelValues == {-1500, -41, 0, 41, 120, 1500}

Slices(values) == UNION {[1..n -> values] : n \in 1..MaxStageLen}

MicSlices == Slices(StageValues)

LoopbackSlices == Slices(StageValues \cap (Int16Min..Int16Max))

\* user gain multipliers and total gains, >= 0
UserGains == {<<0, 1>>, <<1, 2>>, <<1, 1>>, <<2, 1>>}

TotalGains == UserGains \cup {<<7, 3>>, <<24, 1>>}

MixRatios == {<<0, 1>>, <<1, 4>>, <<1, 2>>, <<1, 1>>}

\* The RMS histories a source can have before a cycle: empty (nothing above
\* the noise floor yet), or one tracked chunk.
Histories(floor) ==
    {<<>>} \cup {TrackRms(<<>>, <<v>>, floor) : v \in LevelValues}

\* the per-source settings of lines 362-364, 462-492
SourceSettings(source) ==
    IF source = "mic"
    THEN [floor |-> MicNoiseFloor, target |-> mic_target_rms,
          gmax |-> MicGainMax]
    ELSE [floor |-> LoopbackNoiseFloor, target |-> loopback_target_rms,
          gmax |-> LoopbackGainMax]

\* apply_gain(samples, gain), lines 356-367
StageApplyGain ==
    /\ stage = NoStage
    /\ \E samples \in MicSlices, gain \in TotalGains :
         stage' = [op |-> "apply_gain", samples |-> samples, gain |-> gain,
                   result |-> apply_gain(samples, gain)]
    /\ UNCHANGED <<cfgVars, adapter, stop_event, stateVars, caller_pc,
                   workerVars, streamVars, micVars, lbVars, queueVars,
                   mixerVars, sinkVars, accepted_at_stop>>

\* one source's RMS tracking and normalisation, lines 460-492
StageNormalize ==
    /\ stage = NoStage
    /\ \E source \in {"mic", "loopback"}, user_gain \in UserGains :
       \E s \in {SourceSettings(source)} :
       \E chunk \in Slices(LevelValues), before \in Histories(s.floor) :
       \E history \in {TrackRms(before, chunk, s.floor)} :
         stage' = [op |-> "normalize", source |-> source, chunk |-> chunk,
                   before |-> before, history |-> history,
                   user_gain |-> user_gain,
                   result |-> Normalize(chunk, history, s.target, s.gmax,
                                        user_gain)]
    /\ UNCHANGED <<cfgVars, adapter, stop_event, stateVars, caller_pc,
                   workerVars, streamVars, micVars, lbVars, queueVars,
                   mixerVars, sinkVars, accepted_at_stop>>

\* History entries a source can hold: an RMS just above its noise floor, two
\* in between, and that of a full-scale signal (in units of 1/RmsScale).
GainEntries(floor) ==
    {floor * RmsScale + 1, 120 * RmsScale, 1500 * RmsScale,
     -Int16Min * RmsScale}

\* the automatic gain of one source, lines 475-478 and 486-489
StageAutoGain ==
    /\ stage = NoStage
    /\ \E source \in {"mic", "loopback"} :
       \E s \in {SourceSettings(source)} :
       \E history \in Slices(GainEntries(s.floor)) :
         stage' = [op |-> "auto_gain", source |-> source,
                   history |-> history,
                   gain |-> AutoGain(history, s.target, s.gmax)]
    /\ UNCHANGED <<cfgVars, adapter, stop_event, stateVars, caller_pc,
                   workerVars, streamVars, micVars, lbVars, queueVars,
                   mixerVars, sinkVars, accepted_at_stop>>

\* Device rates, and the 160-sample chunk of a 16000 Hz microphone.
Rates == {8000, 16000, 44100, 48000}

ExampleChunk == [i \in 1..160 |-> 10 * i - 800]

\* resample_simple(samples, from_rate, to_rate), lines 329-347
StageResample ==
    /\ stage = NoStage
    /\ \E samples \in LoopbackSlices \cup {<<>>, ExampleChunk} :
       \E from_rate \in IF samples = ExampleChunk THEN {16000} ELSE Rates :
       \E to_rate \in IF samples = ExampleChunk THEN {48000} ELSE Rates :
         stage' = [op |-> "resample", samples |-> samples,
                   from_rate |-> from_rate, to_rate |-> to_rate,
                   reads |-> ResampleReads(samples, from_rate, to_rate),
                   result |-> resample_simple(samples, from_rate, to_rate)]
    /\ UNCHANGED <<cfgVars, adapter, stop_event, stateVars, caller_pc,
                   workerVars, streamVars, micVars, lbVars, queueVars,
                   mixerVars, sinkVars, accepted_at_stop>>

\* "Create stereo output", clamp and pack, lines 494-506; chunk_size is the
\* length of the loopback slice
StageOutput ==
    /\ stage = NoStage
    /\ \E mic_chunk \in MicSlices, loopback_chunk \in LoopbackSlices,
          split \in BOOLEAN, mix_ratio \in MixRatios :
       \E clamped \in {Clamped(StereoSamples(Len(loopback_chunk), mic_chunk,
                                             loopback_chunk, split,
                                             mix_ratio))} :
         stage' = [op |-> "output", mic_chunk |-> mic_chunk,
                   loopback_chunk |-> loopback_chunk, split |-> split,
                   mix_ratio |-> mix_ratio, clamped |-> clamped,
                   output_data |-> pack(clamped)]
    /\ UNCHANGED <<cfgVars, adapter, stop_event, stateVars, caller_pc,
                   workerVars, streamVars, micVars, lbVars, queueVars,
                   mixerVars, sinkVars, accepted_at_stop>>

StageInit == UnitIdle /\ adapter = NoAdapter /\ stage = NoStage

StageNext ==
    \/ StageApplyGain
    \/ StageNormalize
    \/ StageAutoGain
    \/ StageResample
    \/ StageOutput

StageSpec == StageInit /\ [][StageNext]_vars

(***************************************************************************)
(* The two WasapiStream objects of record_dual_to_file (wasapi.py 59-95),  *)
(* each read by its reader thread (376-403) and closed by the worker after *)
(* the mixer loop (530-536), one statement at a time.  A handle is "open", *)
(* "stopping" (stop_stream() / close() called, _stream not yet None) or    *)
(* "none".                                                                 *)
(***************************************************************************)
\* Both streams open and both threads started, lines 410-416
NewStreams ==
    [op |-> "streams", stop |-> FALSE,
     worker |-> [at |-> "loop", src |-> "none"],
     handle |-> [mic |-> "open", loopback |-> "open"],
     reader |-> [mic |-> "test", loopback |-> "test"],
     reads |-> [mic |-> 0, loopback |-> 0]]

\* `except Exception: if stop_event.is_set(): break`
AfterReadError == IF stage.stop THEN "done" ELSE "test"

\* session.request_stop()
StreamStop ==
    /\ stage.op = "streams"
    /\ ~stage.stop
    /\ stage' = [stage EXCEPT !.stop = TRUE]
    /\ UNCHANGED <<cfgVars, adapter, stop_event, stateVars, caller_pc,
                   workerVars, streamVars, micVars, lbVars, queueVars,
                   mixerVars, sinkVars, accepted_at_stop>>

\* `while not stop_event.is_set()` of a reader thread
ReaderLoopTest(s) ==
    /\ stage.op = "streams"
    /\ stage.reader[s] = "test"
    /\ stage' = [stage EXCEPT
                   !.reader[s] = IF stage.stop THEN "done" ELSE "check"]
    /\ UNCHANGED <<cfgVars, adapter, stop_event, stateVars, caller_pc,
                   workerVars, streamVars, micVars, lbVars, queueVars,
                   mixerVars, sinkVars, accepted_at_stop>>

\* WasapiStream.read, lines 91-92: `if self._stream is None: raise`
ReadCheck(s) ==
    /\ stage.op = "streams"
    /\ stage.reader[s] = "check"
    /\ stage' = [stage EXCEPT
                   !.reader[s] = IF stage.handle[s] = "none"
                                 THEN AfterReadError ELSE "device"]
    /\ UNCHANGED <<cfgVars, adapter, stop_event, stateVars, caller_pc,
                   workerVars, streamVars, micVars, lbVars, queueVars,
                   mixerVars, sinkVars, accepted_at_stop>>

\* WasapiStream.read, line 93: self._stream.read(...) returns a chunk from
\* an open handle, the device having one; on a handle that close() has
\* stopped or dropped meanwhile the call raises or returns
ReadDevice(s) ==
    /\ stage.op = "streams"
    /\ stage.reader[s] = "device"
    /\ IF stage.handle[s] = "open"
       THEN /\ stage.reads[s] < MaxReads
            /\ stage' = [stage EXCEPT !.reader[s] = "test",
                                      !.reads[s] = @ + 1]
       ELSE \E next \in {AfterReadError, "test"} :
              stage' = [stage EXCEPT !.reader[s] = next]
    /\ UNCHANGED <<cfgVars, adapter, stop_event, stateVars, caller_pc,
                   workerVars, streamVars, micVars, lbVars, queueVars,
                   mixerVars, sinkVars, accepted_at_stop>>

\* recording_loop finds stop_event set, line 425
MixerLeaves ==
    /\ stage.op = "streams"
    /\ stage.worker.at = "loop"
    /\ stage.stop
    /\ stage' = [stage EXCEPT !.worker = [at |-> "join", src |-> "mic"]]
    /\ UNCHANGED <<cfgVars, adapter, stop_event, stateVars, caller_pc,
                   workerVars, streamVars, micVars, lbVars, queueVars,
                   mixerVars, sinkVars, accepted_at_stop>>

\* mic_thread.join(timeout=1.0); loopback_thread.join(timeout=1.0): the
\* thread has ended or the timeout has elapsed
JoinReader ==
    /\ stage.op = "streams"
    /\ stage.worker.at = "join"
    /\ stage' = [stage EXCEPT
                   !.worker = IF stage.worker.src = "mic"
                              THEN [at |-> "join", src |-> "loopback"]
                              ELSE [at |-> "close", src |-> "mic"]]
    /\ UNCHANGED <<cfgVars, adapter, stop_event, stateVars, caller_pc,
                   workerVars, streamVars, micVars, lbVars, queueVars,
                   mixerVars, sinkVars, accepted_at_stop>>

\* WasapiStream.close, lines 83-87: under the lock, stop_stream() and
\* close() on the handle
CloseBegin ==
    /\ stage.op = "streams"
    /\ stage.worker.at = "close"
    /\ stage' = [stage EXCEPT
                   !.handle[stage.worker.src] = "stopping",
                   !.worker.at = "release"]
    /\ UNCHANGED <<cfgVars, adapter, stop_event, stateVars, caller_pc,
                   workerVars, streamVars, micVars, lbVars, queueVars,
                   mixerVars, sinkVars, accepted_at_stop>>

\* WasapiStream.close, line 88: self._stream = None
CloseRelease ==
    /\ stage.op = "streams"
    /\ stage.worker.at = "release"
    /\ stage' = [stage EXCEPT
                   !.handle[stage.worker.src] = "none",
                   !.worker = IF stage.worker.src = "mic"
                              THEN [at |-> "close", src |-> "loopback"]
                              ELSE [at |-> "done", src |-> "none"]]
    /\ UNCHANGED <<cfgVars, adapter, stop_event, stateVars, caller_pc,
                   workerVars, streamVars, micVars, lbVars, queueVars,
                   mixerVars, sinkVars, accepted_at_stop>>

StreamNext ==
    \/ StreamStop
    \/ \E s \in {"mic", "loopback"} :
         ReaderLoopTest(s) \/ ReadCheck(s) \/ ReadDevice(s)
    \/ MixerLeaves
    \/ JoinReader
    \/ CloseBegin
    \/ CloseRelease

StreamInit == UnitIdle /\ adapter = NoAdapter /\ stage = NewStreams

StreamSpec == StreamInit /\ [][StreamNext]_vars

(***************************************************************************)
(* The RMS tracking of one source over up to MaxAgcCycles mixer cycles     *)
(* (wasapi.py 460-472): every cycle's slice is <<a, -a>>, a signal of      *)
(* constant amplitude a (below, between and above the two noise floors);   *)
(* the amplitude changes at most once.  `run` counts the consecutive       *)
(* cycles at the present amplitude.  No recording runs.                    *)
(***************************************************************************)
AgcLevels == {41, 80, 120, 1500}

AgcStart(source, level) ==
    [op |-> "agc", source |-> source, level |-> level, changed |-> FALSE,
     run |-> 0, cycles |-> 0, chunk |-> <<>>, history |-> <<>>]

\* one cycle: lines 461-472 for the source
AgcCycle ==
    /\ stage.op = "agc"
    /\ stage.cycles < MaxAgcCycles
    /\ \E level \in (IF stage.changed THEN {stage.level} ELSE AgcLevels) :
       \E chunk \in {<<level, -level>>} :
         stage' = [stage EXCEPT
                     !.level = level,
                     !.changed = @ \/ level # stage.level,
                     !.run = IF level = stage.level THEN @ + 1 ELSE 1,
                     !.cycles = @ + 1,
                     !.chunk = chunk,
                     !.history =
                         TrackRms(@, chunk,
                                  SourceSettings(stage.source).floor)]
    /\ UNCHANGED <<cfgVars, adapter, stop_event, stateVars, caller_pc,
                   workerVars, streamVars, micVars, lbVars, queueVars,
                   mixerVars, sinkVars, accepted_at_stop>>

AgcInit ==
    /\ UnitIdle
    /\ adapter = NoAdapter
    /\ stage \in {AgcStart(source, level) :
                    source \in {"mic", "loopback"}, level \in AgcLevels}

AgcSpec == AgcInit /\ [][AgcCycle]_vars

(***************************************************************************)
(* Fairness: every thread that can take a step eventually takes one (a     *)
(* device read or a sink write in flight returns or raises), and the       *)
(* command goes on once its wait is over.  Ctrl+C is never forced.         *)
(***************************************************************************)
Fairness ==
    /\ WF_vars(MicReader)
    /\ WF_vars(LoopbackReader)
    /\ WF_vars(Worker)
    /\ WF_vars(start_recording \/ LeaveWaitLoop \/ StopRecordingReturns
                 \/ ReportOutcome)

\* The sessions followed under fairness: the `start` command's defaults, and
\* a mixed, echo-cancelled, direct-MP3 session.
FairSessions ==
    {s \in Sessions :
        \/ (s.stereo_split /\ ~s.aec_enabled /\ ~s.direct_mp3)
        \/ (~s.stereo_split /\ s.aec_enabled /\ s.direct_mp3)}

FairInit ==
    /\ session \in FairSessions
    /\ aec_available = TRUE
    /\ read_budget = [mic |-> MaxReads, loopback |-> MaxReads]
    /\ Created

FairSpec == FairInit /\ [][Next]_vars /\ Fairness

\* A session whose loopback device delivers one chunk and then falls silent
\* (nothing is being played) while the mic keeps delivering.
SilentInit ==
    /\ session \in {s \in Sessions :
                      s.stereo_split /\ ~s.aec_enabled /\ ~s.direct_mp3}
    /\ aec_available = TRUE
    /\ read_budget = [mic |-> MaxMicOnlyReads, loopback |-> 1]
    /\ Created

SilentSpec == SilentInit /\ [][Next]_vars

(***************************************************************************)
(* Properties.                                                             *)
(***************************************************************************)
InMixerLoop ==
    worker_pc \in {"loop_test", "drain_mic", "drain_loopback", "decide",
                   "write", "on_chunk"}

AfterMixerLoop ==
    worker_pc \in {"close_sink", "join_mic", "join_loopback", "close_streams",
                   "except", "finally", "done"}

\* C1: in every emitting cycle, with N the length of the loopback buffer
\* after the drain, the frame has N sample-pairs (4*N bytes), the frame
\* written is that frame, and the mic slice handed to AEC/gain has length N:
\* when the mic buffer held M < N samples, its first M samples are the
\* buffered ones and its last N-M samples are zero.  Echo cancellation on
\* or off.
C1_FrameLengthAndPadding ==
    LET N == cycle.chunk_size
        M == Len(cycle.mic_buffered)
    IN  /\ N = Len(cycle.loopback_chunk)
        /\ Len(cycle.output_data) = 4 * N
        /\ Len(cycle.mic_slice) = N
        /\ (worker_pc = "on_chunk" => sink[Len(sink)] = cycle.output_data)
        /\ (M < N =>
              /\ \A i \in 1..M : cycle.mic_slice[i] = cycle.mic_buffered[i]
              /\ \A i \in (M + 1)..N : cycle.mic_slice[i] = 0)
        /\ (M >= N =>
              \A i \in 1..N : cycle.mic_slice[i] = cycle.mic_buffered[i])

\* A frame was written in a cycle with echo cancellation in which the mic
\* buffer held some samples, but fewer than the loopback buffer.
C1_Witness ==
    /\ worker_pc = "on_chunk"
    /\ aec_processor.present
    /\ Len(cycle.mic_buffered) > 0
    /\ Len(cycle.mic_buffered) < cycle.chunk_size

C2_CycleStep ==
    /\ (worker_pc = "decide" /\ worker_pc' # "decide") =>
          IF loopback_buffer # <<>>
          THEN /\ worker_pc' = "write"
               /\ cycle'.chunk_size = Len(loopback_buffer)
               /\ cycle'.loopback_chunk = loopback_buffer
               /\ Len(cycle'.output_data) = 4 * Len(loopback_buffer)
               /\ loopback_buffer' = <<>>
          ELSE /\ worker_pc' = "loop_test"
               /\ UNCHANGED <<mic_buffer, loopback_buffer, cycle, sink>>
    /\ (worker_pc' = "write" /\ worker_pc # "write") =>
          (worker_pc = "decide" /\ loopback_buffer # <<>>)
    /\ (worker_pc = "write" /\ worker_pc' # "write") =>
          \/ worker_pc' = "on_chunk" /\ sink' = Append(sink, cycle.output_data)
          \/ worker_pc' = "close_streams" /\ worker_exc' # None /\ sink' = sink
    /\ sink' # sink =>
          (worker_pc = "write" /\ cycle.chunk_size > 0
             /\ sink' = Append(sink, cycle.output_data))

\* C2: loopback is the master clock.  A mixer cycle hands a frame to the
\* sink if and only if the loopback buffer is non-empty after the drain; the
\* cycle size is the whole loopback buffer, which is empty after assembly;
\* with an empty loopback buffer the cycle only sleeps and loops again,
\* whatever the mic buffer holds, and nothing else ever writes to the sink.
C2_LoopbackMasterClock == [][C2_CycleStep]_vars

\* A cycle has slept with mic samples buffered and nothing written.
C2_Witness ==
    /\ worker_pc = "loop_test"
    /\ mic_buffer # <<>>
    /\ loopback_buffer = <<>>
    /\ sink = <<>>
    /\ mic_queue = <<>>

ReaderStopped(pc) ==
    pc = "done" \/ (pc = "unstarted" /\ AfterMixerLoop)

LoopsStopped ==
    /\ ReaderStopped(mic_pc)
    /\ ReaderStopped(loopback_pc)
    /\ AfterMixerLoop

\* C3: once stop_event is set, the mic reader, the loopback reader and the
\* mixer loop all end (readers that were never started count as ended once
\* the worker is past its loop), from every reachable state, provided every
\* thread that can step does.
C3_CancellationTerminates == stop_event ~> LoopsStopped

\* All three loops ran, wrote a frame and ended after cancellation.
C3_Witness ==
    /\ stop_event
    /\ mic_pc = "done"
    /\ loopback_pc = "done"
    /\ worker_pc = "done"
    /\ worker_exc = None
    /\ sink # <<>>

\* C4 (as claimed): when the mixer loop has been left on cancellation, every
\* loopback sample that had been accepted by the time stop_event was set is
\* in the sink.
C4_NoLossAtShutdown ==
    (AfterMixerLoop /\ worker_exc = None /\ accepted_at_stop >= 0) =>
        SinkPairs >= accepted_at_stop

QueueBound ==
    /\ Len(mic_queue) <= QueueMaxSize
    /\ Len(loopback_queue) <= QueueMaxSize

C5_DropStep ==
    /\ (mic_reads' # mic_reads /\ Len(mic_queue) >= QueueMaxSize) =>
          /\ mic_queue' = mic_queue
          /\ mic_pc' = "test"
          /\ mic_dropped' = mic_dropped + 1
          /\ UNCHANGED <<stateVars, workerVars>>
    /\ (loopback_reads' # loopback_reads
          /\ Len(loopback_queue) >= QueueMaxSize) =>
          /\ loopback_queue' = loopback_queue
          /\ loopback_pc' = "test"
          /\ loopback_dropped' = loopback_dropped + 1
          /\ UNCHANGED <<stateVars, workerVars>>
    /\ (mic_reads' # mic_reads /\ Len(mic_queue) < QueueMaxSize) =>
          (Len(mic_queue') = Len(mic_queue) + 1 /\ mic_dropped' = mic_dropped)
    /\ (loopback_reads' # loopback_reads
          /\ Len(loopback_queue) < QueueMaxSize) =>
          (Len(loopback_queue') = Len(loopback_queue) + 1
             /\ loopback_dropped' = loopback_dropped)

\* C5: neither intake queue ever holds more than its capacity, and a reader
\* that has read a chunk while its queue is full discards that chunk: the
\* queue keeps its contents and order, no error is raised or recorded, and
\* the reader is back at its loop test, ready for the next read.
C5_BoundedQueueDropNewest == []QueueBound /\ [][C5_DropStep]_vars

\* Both readers have discarded a chunk on a full queue.
C5_Witness ==
    /\ mic_dropped > 0
    /\ loopback_dropped > 0
    /\ Len(mic_queue) = QueueMaxSize
    /\ mic_pc = "test"
    /\ error = None

HeldSamples ==
    QueuedSamples(mic_queue) + QueuedSamples(loopback_queue)
      + Len(mic_buffer) + Len(loopback_buffer)

\* What the configuration fixes at session start: two full queues and, for
\* each source, a buffer holding one drain of a full queue that raced with
\* one more put.
MemoryBound == 2 * (2 * QueueMaxSize + 1) * ChunkFrames

\* C6 (as claimed): the samples held in the two intake queues and the two
\* accumulation buffers never exceed the bound fixed at session start, also
\* when the loopback device delivers nothing while the mic keeps delivering.
C6_BoundedMemory == HeldSamples <= MemoryBound

\* C7: the mixer never waits for mic data.  For every k, once k loopback
\* chunks have been accepted (queued, buffered, in flight or written) and
\* cancellation is not requested, the sample-pairs of k chunks are eventually
\* in the sink, unless cancellation is requested or the worker raises (a
\* device cannot be opened, the sink cannot be opened or written) - whatever
\* the mic delivers.
C7_NeverWaitsForMic ==
    \A k \in 1..MaxReads :
        (LoopbackAccepted >= k * ChunkFrames /\ ~stop_event)
            ~> (SinkPairs >= k * ChunkFrames \/ stop_event
                  \/ worker_exc # None)

\* A frame was written while the mic never delivered a sample: its mic
\* channel (the left one in stereo-split) is zero.
C7_Witness ==
    /\ sink # <<>>
    /\ mic_reads = 0
    /\ ~stop_event
    /\ session.stereo_split
    /\ sink[1][1] = 0
    /\ sink[1][2] = 0
    /\ sink[1][3] # 0

\* The end-to-end scenario: stereo-split, no AEC, mic mono and loopback
\* stereo at the same rate, one chunk read from each device, everything
\* queued taken in and the mixer between two cycles.
C8_Scenario ==
    /\ session.stereo_split
    /\ ~session.aec_enabled
    /\ mic_reads = 1
    /\ loopback_reads = 1
    /\ mic_queue = <<>>
    /\ loopback_queue = <<>>
    /\ loopback_buffer = <<>>
    /\ worker_pc \in {"loop_test", "drain_mic", "drain_loopback", "decide"}

\* The samples the devices delivered: the mic chunk, and the left channel of
\* the loopback chunk.
C8_MicInput == [f \in 1..ChunkFrames |-> 1500 + 8 + f]

C8_LoopbackLeft == [f \in 1..ChunkFrames |-> 1400 + 8 + f]

\* A chunk scaled by target / rms(chunk), the ratio kept within [0.5, gmax].
GainAdjusted(x, target, gmax) ==
    apply_gain(x, AutoGain(<<calc_rms(x)>>, target, gmax))

Interleaved(left, right) ==
    [k \in 1..(2 * Len(left)) |->
        IF k % 2 = 1 THEN left[(k + 1) \div 2] ELSE right[k \div 2]]

\* C8 (as claimed): in the scenario, under every interleaving, the sink holds
\* exactly one frame, left = gain-adjusted mic input, right = gain-adjusted
\* left channel of the loopback input.
C8_EndToEndEveryInterleaving ==
    C8_Scenario =>
        sink = << pack(Interleaved(
                    GainAdjusted(C8_MicInput, mic_target_rms, MicGainMax),
                    GainAdjusted(C8_LoopbackLeft, loopback_target_rms,
                                 LoopbackGainMax))) >>

\* C8 (amended): in the scenario the sink holds exactly one frame of
\* ChunkFrames sample-pairs whose right channel is the gain-adjusted left
\* channel of the loopback input; its left channel is the gain-adjusted mic
\* input when the mic chunk was in the mic buffer at that cycle, and silence
\* otherwise, the mic chunk then staying in the mic buffer.
C8_EndToEnd ==
    C8_Scenario =>
        /\ Len(sink) = 1
        /\ Len(sink[1]) = 4 * ChunkFrames
        /\ mic_buffer \in {<<>>, C8_MicInput}
        /\ sink[1] =
             pack(Interleaved(
                    IF mic_buffer = <<>>
                    THEN GainAdjusted(C8_MicInput, mic_target_rms, MicGainMax)
                    ELSE Zeros(ChunkFrames),
                    GainAdjusted(C8_LoopbackLeft, loopback_target_rms,
                                 LoopbackGainMax)))

\* The scenario, with the mic chunk in the frame.
C8_Witness == C8_Scenario /\ mic_buffer = <<>> /\ Len(sink) = 1

ReadersStarted == mic_pc # "unstarted" /\ loopback_pc # "unstarted"

\* C9 (as claimed): when the worker of a dual-source session has ended on an
\* error, the error is in session.state.error and, if the capture workers
\* had been started, they have been signalled to stop.
C9_ErrorSignalsPeers ==
    (worker_pc = "done" /\ worker_exc # None) =>
        /\ error = worker_exc
        /\ (ReadersStarted => stop_event)

\* C10 (as claimed): whenever the caller treats the session as finished
\* (stop_recording returned, or the wait loop was left) and state.error is
\* None, the worker has ended, is_recording is False and the sink is closed.
C10_NoPartialSuccess ==
    (caller_pc \in {"finished", "complete_reported"} /\ error = None) =>
        /\ worker_pc = "done"
        /\ ~is_recording
        /\ sink_state = "closed"

(***************************************************************************)
(* Failure handling in every mode.                                         *)
(***************************************************************************)
\* A step in which the sink write of the worker raised: the worker leaves
\* its write without the sink having taken the chunk.
WriteRaised ==
    /\ worker_pc \in {"write", "single_write"}
    /\ worker_pc' # worker_pc
    /\ sink' = sink

\* A step in which the read of the single-source worker raised.
SingleReadRaised ==
    /\ worker_pc = "single_read"
    /\ worker_pc' \notin {"single_read", "single_write"}

\* Steps in which the read of a dual-mode reader thread raised.
MicReadRaised ==
    /\ mic_pc = "read"
    /\ mic_pc' # "read"
    /\ mic_reads' = mic_reads

LoopbackReadRaised ==
    /\ loopback_pc = "read"
    /\ loopback_pc' # "read"
    /\ loopback_reads' = loopback_reads

\* A failure the worker carries is the one recorded once the worker ended,
\* and the session has stopped by then.
Surfaced ==
    (worker_pc = "done" /\ worker_exc # None)
        => (error = worker_exc /\ ~is_recording)

\* C11: a sink write failure is fatal and surfaced in every mode, whether or
\* not cancellation was already requested: the step in which the write
\* raises makes the worker carry IoError, and a failure the worker carries
\* is recorded in state.error with the session stopped.
C11_WriteFailureSurfaces ==
    /\ []Surfaced
    /\ [][WriteRaised => worker_exc' = "IoError"]_vars

\* What a failed read of a dual-mode reader thread leaves alone: the worker
\* carries no failure for it and none is recorded.
NothingRecorded == worker_exc' = worker_exc /\ error' = error

\* After cancellation a failed read is dropped in every mode.
ReadFailureAfterCancel ==
    /\ (SingleReadRaised /\ stop_event)
           => (worker_pc' = "single_close_sink" /\ NothingRecorded)
    /\ (MicReadRaised /\ stop_event) => (mic_pc' = "done" /\ NothingRecorded)
    /\ (LoopbackReadRaised /\ stop_event)
           => (loopback_pc' = "done" /\ NothingRecorded)

\* Before cancellation the single-source worker carries the failure on.
SingleReadFailureSurfaces ==
    (SingleReadRaised /\ ~stop_event) => worker_exc' = "ReadError"

\* C12 as stated: a read error before cancellation propagates and surfaces
\* in single-source and in dual-source mode alike (a dual-mode reader leaves
\* its loop with the failure); after cancellation it is dropped and records
\* no error.
C12_ReadFailurePropagates ==
    /\ []Surfaced
    /\ [][/\ ReadFailureAfterCancel
          /\ SingleReadFailureSurfaces
          /\ (MicReadRaised /\ ~stop_event) => mic_pc' = "done"
          /\ (LoopbackReadRaised /\ ~stop_event) => loopback_pc' = "done"]_vars

\* C12, amended: a read error before cancellation surfaces in single-source
\* mode (the worker carries ReadError, which is recorded in state.error with
\* the session stopped); in dual-source mode the reader thread drops it,
\* stays in its loop and nothing is recorded; after cancellation it is
\* dropped in every mode and records no error.
C12_ReadFailureByMode ==
    /\ []Surfaced
    /\ [][/\ ReadFailureAfterCancel
          /\ SingleReadFailureSurfaces
          /\ (MicReadRaised /\ ~stop_event)
                 => (mic_pc' = "test" /\ NothingRecorded)
          /\ (LoopbackReadRaised /\ ~stop_event)
                 => (loopback_pc' = "test" /\ NothingRecorded)]_vars

\* A single-source session whose read failed before any cancellation, the
\* failure recorded and the session stopped.
C12_Witness ==
    /\ session.mode # "BOTH"
    /\ ~stop_event
    /\ worker_pc = "done"
    /\ error = "ReadError"
    /\ ~is_recording

\* C13: a dual-mode reader thread leaves its read loop only when stop_event
\* is set; a failed read while it is not set enqueues nothing and the thread
\* goes back to its loop test to read again; a failed read while it is set
\* ends the thread.
C13_ReaderLeavesOnlyOnCancel ==
    [][/\ (mic_pc # "done" /\ mic_pc' = "done") => stop_event
       /\ (loopback_pc # "done" /\ loopback_pc' = "done") => stop_event
       /\ (MicReadRaised /\ ~stop_event)
              => (mic_pc' = "test" /\ UNCHANGED <<mic_queue, mic_dropped>>)
       /\ (LoopbackReadRaised /\ ~stop_event)
              => (/\ loopback_pc' = "test"
                  /\ UNCHANGED <<loopback_queue, loopback_dropped>>)
       /\ (MicReadRaised /\ stop_event) => mic_pc' = "done"
       /\ (LoopbackReadRaised /\ stop_event) => loopback_pc' = "done"]_vars

\* One reader has left its loop under cancellation while the other, still
\* in a read it began before, has chunks left to deliver.
C13_Witness ==
    /\ stop_event
    /\ mic_pc = "done"
    /\ loopback_pc = "read"
    /\ mic_reads >= 1
    /\ loopback_reads < read_budget.loopback

(***************************************************************************)
(* The AEC adapter.                                                        *)
(***************************************************************************)
\* Samples fed and cancel invocations since the adapter was last empty.
MicTotal == adapter.mic_fed - adapter.since.mic

RefTotal == adapter.ref_fed - adapter.since.ref

CancelCalls == adapter.calls - adapter.since.calls

\* C14: from an empty adapter, as long as the mic samples fed or the
\* reference samples fed are fewer than frame_size in total, process_samples
\* has not invoked cancel and the call just made returned the empty list.
C14_NoFrameNoCancel ==
    (adapter.op = "process_samples"
       /\ (MicTotal < FrameSize \/ RefTotal < FrameSize))
        => (CancelCalls = 0 /\ adapter.result = <<>>)

\* Two calls fed samples, mic and reference fed differently (one of them
\* beyond a frame), and no frame was due yet.
C14_Witness ==
    /\ adapter.op = "process_samples"
    /\ adapter.ops >= 2
    /\ adapter.since.mic = 0 /\ adapter.since.ref = 0
    /\ MicTotal >= FrameSize
    /\ RefTotal = FrameSize - 1
    /\ adapter.result = <<>>

\* C15: after every process_samples return at least one of the two leftover
\* buffers is shorter than frame_size, and cancel was invoked
\* floor(min(mic fed, reference fed) / frame_size) times since the adapter
\* was last empty.
C15_LeftoverAndCallCount ==
    adapter.op = "process_samples"
        => /\ (Len(adapter.mic_buffer) < FrameSize
                 \/ Len(adapter.ref_buffer) < FrameSize)
           /\ CancelCalls = Min(MicTotal, RefTotal) \div FrameSize

\* One call processed two frames and left mic samples behind.
C15_Witness ==
    /\ adapter.op = "process_samples"
    /\ Len(adapter.result) = 2 * FrameSize
    /\ CancelCalls >= 2
    /\ adapter.mic_buffer # <<>>
    /\ adapter.ref_buffer = <<>>

\* C16: flush returns exactly the mic leftover, in order, invokes cancel
\* not at all, and leaves mic buffer, reference buffer and output
\* accumulator empty.
C16_FlushReturnsMicLeftover ==
    [][(adapter'.op = "flush" /\ adapter'.ops = adapter.ops + 1)
          => /\ adapter'.result = adapter.mic_buffer
             /\ adapter'.calls = adapter.calls
             /\ adapter'.mic_buffer = <<>>
             /\ adapter'.ref_buffer = <<>>
             /\ adapter'.output_buffer = <<>>]_vars

\* A flush handed back a leftover and discarded reference samples after
\* frames had been processed.
C16_Witness ==
    /\ adapter.op = "flush"
    /\ adapter.result # <<>>
    /\ adapter.calls >= 1
    /\ adapter.ref_fed > adapter.calls * FrameSize
    /\ adapter.since.calls = adapter.calls

(***************************************************************************)
(* The gain and output stages.                                             *)
(***************************************************************************)
InInt16(samples) ==
    \A k \in 1..Len(samples) : samples[k] \in Int16Min..Int16Max

\* C17: every sample packed into a frame lies in [-32768, 32767] (so the
\* bytes packed are those of the sample itself), whatever the slices, the
\* mix ratio and the values of the echo-cancellation service; apply_gain
\* returns only values in that range for any gain >= 0.
C17_SamplesInRange ==
    /\ stage.op = "apply_gain" => InInt16(stage.result)
    /\ stage.op = "output"
         => (InInt16(stage.clamped)
               /\ unpack(stage.output_data) = stage.clamped)

\* A frame was packed from a mic slice beyond the 16-bit range on both
\* sides, in stereo-split mode.
C17_Witness ==
    /\ stage.op = "output"
    /\ stage.split
    /\ \E i, j \in 1..Len(stage.mic_chunk) :
         stage.mic_chunk[i] > Int16Max /\ stage.mic_chunk[j] < Int16Min
    /\ Len(stage.loopback_chunk) = Len(stage.mic_chunk)

\* v is int(num / den) clamped to the 16-bit range: saturated, or the
\* integer next to num / den on the side of zero.
IsClampedTruncation(v, num, den) ==
    IF v = Int16Max THEN num >= Int16Max * den
    ELSE IF v = Int16Min THEN num <= Int16Min * den
    ELSE IF num >= 0 THEN v * den <= num /\ num < (v + 1) * den
    ELSE (v - 1) * den < num /\ num <= v * den

\* C18: the frame holds one sample-pair per loopback sample; in
\* stereo-split mode pair i is (mic[i], loopback[i]), clamped; in mixed mode
\* both channels carry int(mixRatio * mic[i] + (1 - mixRatio) * loopback[i]),
\* clamped (mic[i] being 0 beyond the end of the mic slice).
C18_OutputLayout ==
    stage.op = "output" =>
        LET out == unpack(stage.output_data)
            n   == Len(stage.loopback_chunk)
            mic(i) == IF i <= Len(stage.mic_chunk) THEN stage.mic_chunk[i]
                      ELSE 0
            r   == stage.mix_ratio
        IN  /\ Len(out) = 2 * n
            /\ \A i \in 1..n :
                 IF stage.split
                 THEN /\ out[2 * i - 1] = Max(Int16Min, Min(Int16Max, mic(i)))
                      /\ out[2 * i] = stage.loopback_chunk[i]
                 ELSE /\ out[2 * i - 1] = out[2 * i]
                      /\ IsClampedTruncation(
                             out[2 * i],
                             r[1] * mic(i)
                               + (r[2] - r[1]) * stage.loopback_chunk[i],
                             r[2])

\* A mixed frame whose mix is negative and not an integer, from a mic slice
\* shorter than the loopback slice.
C18_Witness ==
    /\ stage.op = "output"
    /\ ~stage.split
    /\ stage.mix_ratio = <<1, 2>>
    /\ Len(stage.mic_chunk) < Len(stage.loopback_chunk)
    /\ stage.mic_chunk[1] + stage.loopback_chunk[1] < 0
    /\ (stage.mic_chunk[1] + stage.loopback_chunk[1]) % 2 = 1

\* C20: in every emitting cycle each source's slice is scaled by
\* estimatedGain * userGain, estimatedGain being the clamped target / average
\* of the RMS history and 1.0 when the history is empty; the user multiplier
\* is applied also while the history is empty.
C20_UserGainAlwaysApplied ==
    stage.op = "normalize" =>
        LET s   == SourceSettings(stage.source)
            est == IF stage.history = <<>> THEN <<1, 1>>
                   ELSE AutoGain(stage.history, s.target, s.gmax)
        IN  stage.result =
                apply_gain(stage.chunk, <<est[1] * stage.user_gain[1],
                                          est[2] * stage.user_gain[2]>>)

(***************************************************************************)
(* The chunk observer.                                                     *)
(***************************************************************************)
\* The bytes the sink has taken.
SinkBytes == SumSeq([k \in 1..Len(sink) |-> Len(sink[k])])

\* The worker has written a frame and not yet called the observer with it.
ObserverDue == worker_pc = "on_chunk"

\* C19: every assembled frame is written once (or the write fails) and the
\* observer is then called once with the bytes written; bytes_recorded is 0
\* when recording starts, never decreases, never exceeds the bytes the sink
\* has taken, and equals them whenever no observer call is due.
C19_ObserverFollowsWrite ==
    /\ [](/\ bytes_recorded <= SinkBytes
          /\ ObserverDue
               => (/\ sink # <<>>
                   /\ sink[Len(sink)] = cycle.output_data
                   /\ bytes_recorded + Len(cycle.output_data) = SinkBytes)
          /\ ~ObserverDue => bytes_recorded = SinkBytes)
    /\ [][/\ bytes_recorded' >= bytes_recorded
          /\ (caller_pc = "created" /\ caller_pc' # "created")
                 => bytes_recorded' = 0
          /\ (worker_pc = "write" /\ worker_pc' # "write")
                 => \/ (sink' = Append(sink, cycle.output_data)
                          /\ worker_pc' = "on_chunk")
                    \/ (sink' = sink /\ worker_exc' # None)
          /\ sink' # sink => (worker_pc = "write" /\ worker_pc' = "on_chunk")
          /\ bytes_recorded' # bytes_recorded
                 => (/\ ObserverDue
                     /\ worker_pc' = "loop_test"
                     /\ bytes_recorded'
                          = bytes_recorded + Len(sink[Len(sink)]))]_vars

\* The observer is due for the second frame, the first one counted.
C19_Witness ==
    /\ ObserverDue
    /\ Len(sink) = 2
    /\ bytes_recorded = Len(sink[1])
    /\ bytes_recorded > 0

(***************************************************************************)
(* Automatic gain control.                                                 *)
(***************************************************************************)
\* The slice's RMS does not exceed the floor: sum of squares / length is at
\* most floor squared.
Quiet(chunk, floor) == SumSq(chunk) <= floor * floor * Len(chunk)

\* C21: a cycle whose slice RMS does not exceed the source's noise floor
\* leaves that source's RMS history as it was, and the slice is scaled as
\* the history of the previous cycle scales it.
C21_QuietCycleKeepsHistory ==
    (stage.op = "normalize"
       /\ Quiet(stage.chunk, SourceSettings(stage.source).floor))
        => LET s == SourceSettings(stage.source)
           IN  /\ stage.history = stage.before
               /\ stage.result = Normalize(stage.chunk, stage.before,
                                           s.target, s.gmax, stage.user_gain)

\* A quiet, non-silent loopback slice met a non-empty history and was
\* scaled by it.
C21_Witness ==
    /\ stage.op = "normalize"
    /\ stage.source = "loopback"
    /\ Quiet(stage.chunk, LoopbackNoiseFloor)
    /\ stage.before # <<>>
    /\ stage.result # stage.chunk

\* The floor of the source followed, in the units of the history entries.
AgcFloor == SourceSettings(stage.source).floor * RmsScale

\* C22: a history holds at most agc_window entries, each above the source's
\* noise floor; a cycle above the floor appends its RMS at the end, evicting
\* the oldest entry of a full history, and leaves the others in order; a
\* non-empty history has an average above 50, so the gain branch is taken.
C22_HistoryWindow ==
    /\ [](stage.op = "agc"
            => /\ Len(stage.history) <= agc_window
               /\ \A k \in 1..Len(stage.history) : stage.history[k] > AgcFloor
               /\ stage.history # <<>> => GainBranch(stage.history))
    /\ [][(stage.op = "agc" /\ stage'.cycles = stage.cycles + 1)
             => IF Quiet(stage'.chunk, SourceSettings(stage.source).floor)
                THEN stage'.history = stage.history
                ELSE /\ stage'.history[Len(stage'.history)]
                          = calc_rms(stage'.chunk)
                     /\ SubSeq(stage'.history, 1, Len(stage'.history) - 1)
                          = IF Len(stage.history) < agc_window
                            THEN stage.history
                            ELSE Tail(stage.history)]_vars

\* A full history from which every entry of the first amplitude has been
\* evicted but the last one.
C22_Witness ==
    /\ stage.op = "agc"
    /\ Len(stage.history) = agc_window
    /\ stage.changed
    /\ stage.history[1] # stage.history[2]
    /\ stage.history[2] = stage.history[agc_window]

\* A gain <<num, den>> in thousandths, rounded down.
Permille(g) == (g[1] \div g[2]) * 1000 + ((g[1] % g[2]) * 1000) \div g[2]

\* targetRMS / inputRMS clamped to the source's bounds, in thousandths, for a
\* signal of constant amplitude a (whose RMS is a).
IdealPermille(source, a) ==
    LET s == SourceSettings(source)
    IN  Max(500, Min(s.gmax * 1000, (s.target * 1000) \div a))

\* C24: after more than agc_window consecutive cycles of a constant
\* amplitude above the source's noise floor, the automatic gain is within 5%
\* of targetRMS / inputRMS clamped to the source's bounds.
C24_GainConverges ==
    (/\ stage.op = "agc"
     /\ stage.run > agc_window
     /\ ~Quiet(stage.chunk, SourceSettings(stage.source).floor))
        => LET s == SourceSettings(stage.source)
               applied == Permille(AutoGain(stage.history, s.target, s.gmax))
               ideal == IdealPermille(stage.source, stage.level)
           IN  20 * Abs(applied - ideal) <= ideal

\* The amplitude changed once the history was full, and the new amplitude
\* has lasted for more than agc_window cycles with a gain inside the bounds.
C24_Witness ==
    /\ stage.op = "agc"
    /\ stage.source = "mic"
    /\ stage.changed
    /\ stage.run > agc_window
    /\ stage.cycles > 2 * agc_window
    /\ stage.level = 1500

\* C23: the automatic gain, before the user multiplier, lies in [0.5, 12]
\* for the mic and in [0.5, 6] for the loopback, whatever the RMS history.
C23_AutoGainBounds ==
    stage.op = "auto_gain"
        => /\ stage.gain[2] > 0
           /\ 2 * stage.gain[1] >= stage.gain[2]
           /\ stage.gain[1]
                <= SourceSettings(stage.source).gmax * stage.gain[2]

\* Both bounds were applied: a history just above the floor and a history
\* of full-scale chunks, for the loopback.
C23_Witness ==
    /\ stage.op = "auto_gain"
    /\ stage.source = "loopback"
    /\ stage.gain = <<1, 2>>
    /\ Len(stage.history) = MaxStageLen

(***************************************************************************)
(* The resampler.                                                          *)
(***************************************************************************)
\* C25: resampling from a rate to the same rate returns the samples
\* unchanged, and resampling no samples returns none, whatever the rates.
C25_ResampleIdentity ==
    (stage.op = "resample"
       /\ (stage.from_rate = stage.to_rate \/ stage.samples = <<>>))
        => stage.result = stage.samples

\* Samples at the ends of the 16-bit range went through at equal rates.
C25_Witness ==
    /\ stage.op = "resample"
    /\ stage.from_rate = stage.to_rate
    /\ stage.samples = <<Int16Min, Int16Max>>
    /\ stage.result = stage.samples

\* C26: the resampled length is floor(len(x) * r2 / r1) within 1 (480 for
\* the 160-sample chunk from 16000 Hz to 48000 Hz), and only indices inside
\* x are read.
C26_ResampleLength ==
    stage.op = "resample"
        => LET n == Len(stage.samples)
               f == (n * stage.to_rate) \div stage.from_rate
           IN  /\ Len(stage.result) \in (f - 1)..(f + 1)
               /\ stage.reads \subseteq 0..(n - 1)
               /\ stage.samples = ExampleChunk => Len(stage.result) = 480

\* The example chunk was resampled, its last sample read for the tail.
C26_Witness ==
    /\ stage.op = "resample"
    /\ stage.samples = ExampleChunk
    /\ Len(stage.result) = 480
    /\ stage.reads = 0..159
    /\ stage.result[480] = ExampleChunk[160]

(***************************************************************************)
(* Session creation.                                                       *)
(***************************************************************************)
\* create_session raised its RuntimeError.
CreationFailed ==
    command.create \in {"No microphone device found",
                        "No loopback device found"}

\* A device the mode requires was not found.
DeviceMissing ==
    \/ command.mode \in {"MIC", "BOTH"} /\ ~command.mic_found
    \/ command.mode \in {"LOOPBACK", "BOTH"} /\ ~command.loopback_found

\* C27: create_session raises when a device the mode requires cannot be
\* resolved, otherwise the session it returns has every required device,
\* and the worker never raises the BOTH-mode "devices are required" error.
C27_ConfigurationErrorsAtCreation ==
    /\ command.create # "none"
          => /\ DeviceMissing <=> CreationFailed
             /\ DeviceMissing <=> session = NoSession
    /\ session # NoSession
          => /\ session.mode \in {"MIC", "BOTH"} => session.mic_device
             /\ session.mode \in {"LOOPBACK", "BOTH"}
                    => session.loopback_device
    /\ worker_exc # BothRequired
    /\ error # BothRequired

\* A BOTH session was created and its worker ran to the end without error.
C27_Witness ==
    /\ command.create = "returned"
    /\ session.mode = "BOTH"
    /\ worker_pc = "done"
    /\ error = None
    /\ sink # <<>>

\* C28: when create_session raises RuntimeError the `start` command prints
\* the message, exits with code 1, never calls start_recording and calls
\* terminate.
C28_CreationFailureExits ==
    (command.entry = "cli" /\ CreationFailed)
        => /\ worker_pc = "unstarted" /\ ~is_recording
           /\ caller_pc \in {"handler", "finally", "exited"}
           /\ caller_pc # "handler"
                 => command.printed = command.create /\ command.exit_code = 1
           /\ caller_pc = "exited" => command.terminated

\* The command exited after "No loopback device found".
C28_Witness ==
    /\ command.entry = "cli"
    /\ command.create = "No loopback device found"
    /\ caller_pc = "exited"
    /\ command.printed = "No loopback device found"
    /\ command.exit_code = 1
    /\ command.terminated

\* MP3 output is asked for: --format mp3, or direct_mp3=True.
Mp3Requested == command.mp3 \/ command.direct_mp3

\* C29: when MP3 output is requested and lameenc cannot be loaded, no
\* session is created and no worker is started, and no worker records the
\* missing encoder in state.error.
C29_EncoderUnavailableBeforeStart ==
    /\ (Mp3Requested /\ ~is_mp3_available)
          => session = NoSession /\ worker_pc = "unstarted"
    /\ error # "EncoderUnavailable"

(***************************************************************************)
(* What each loop writes.                                                  *)
(***************************************************************************)
\* A step of mic_reader_thread, of loopback_reader_thread.
MicReaderStep == mic_pc \in {"test", "read"} /\ mic_pc' # mic_pc

LoopbackReaderStep ==
    loopback_pc \in {"test", "read"} /\ loopback_pc' # loopback_pc

\* The buffers, the RMS histories and the AEC adapter's buffers.
MixerState ==
    <<mic_buffer, loopback_buffer, mic_rms_history, loopback_rms_history,
      aec_processor>>

\* C30: the mic reader writes no shared state but the mic queue, the
\* loopback reader none but the loopback queue, and the buffers, the RMS
\* histories and the AEC adapter's buffers change only in steps of the
\* worker that runs the mixer loop, which writes no reader's state.
C30_LoopsShareOnlyQueues ==
    [][/\ MicReaderStep
            => UNCHANGED <<loopback_queue, mixerVars, sinkVars, stateVars,
                           stop_event, lbVars, streamVars, workerVars>>
       /\ LoopbackReaderStep
            => UNCHANGED <<mic_queue, mixerVars, sinkVars, stateVars,
                           stop_event, micVars, streamVars, workerVars>>
       /\ MixerState' # MixerState
            => /\ worker_pc = "setup" \/ InMixerLoop
               /\ UNCHANGED <<micVars, lbVars, caller_pc, stop_event>>
       /\ (InMixerLoop /\ worker_pc' # worker_pc)
            => UNCHANGED <<micVars, lbVars, stop_event>>]_vars

\* Both readers have queued chunks and are reading again while the mixer,
\* in its loop, holds an RMS history and AEC leftovers and has written.
C30_Witness ==
    /\ mic_pc = "read" /\ mic_reads >= 1
    /\ loopback_pc = "read" /\ loopback_reads >= 1
    /\ InMixerLoop
    /\ mic_queue # <<>> /\ loopback_queue # <<>>
    /\ loopback_rms_history # <<>>
    /\ aec_processor.present /\ aec_processor.mic_buffer # <<>>
    /\ sink # <<>>

(***************************************************************************)
(* The loopback stream through the queue and the buffer.                   *)
(***************************************************************************)
\* The loopback reader appends one chunk at the tail of its queue.
LoopbackEnqueued ==
    /\ loopback_pc = "read"
    /\ Len(loopback_queue') = Len(loopback_queue) + 1
    /\ SubSeq(loopback_queue', 1, Len(loopback_queue)) = loopback_queue
    /\ UNCHANGED <<loopback_buffer, cycle>>

\* The mixer moves the chunk at the head of the queue to the end of the
\* buffer.
LoopbackDrained ==
    /\ worker_pc = "drain_loopback"
    /\ loopback_queue # <<>>
    /\ loopback_queue' = Tail(loopback_queue)
    /\ loopback_buffer' = loopback_buffer \o Head(loopback_queue)
    /\ UNCHANGED cycle

\* A cycle takes a non-empty prefix of the buffer as its loopback slice.
LoopbackConsumed ==
    /\ worker_pc = "decide"
    /\ worker_pc' = "write"
    /\ cycle'.loopback_chunk # <<>>
    /\ cycle'.loopback_chunk \o loopback_buffer' = loopback_buffer
    /\ UNCHANGED loopback_queue

AecCycle == worker_pc = "write" /\ aec_processor.present

C33_AdapterOutputEmitted ==
    AecCycle => Len(cycle.mic_chunk) <= cycle.chunk_size

\* No flush or reset has discarded samples of the adapter.
NeverEmptied == adapter.since = [mic |-> 0, ref |-> 0, calls |-> 0]

\* C34: over process_samples calls without flush or reset, the mic samples
\* passed in are the samples returned (frame_size per cancel call) plus the
\* mic leftover, likewise for the reference; every returned length is a
\* multiple of frame_size; and each frame returned was made from the mic
\* block and the reference block at the same position of their streams
\* (the mic stream is 101, 102, ..., the reference stream 201, 202, ...: a
\* subtracting service returns -100 throughout, a passing one the mic block).
C34_AdapterConservationAndPairing ==
    (adapter.op = "process_samples" /\ NeverEmptied)
        => LET returned == adapter.calls * FrameSize
               n        == Len(adapter.result)
           IN  /\ adapter.mic_fed = returned + Len(adapter.mic_buffer)
               /\ adapter.ref_fed = returned + Len(adapter.ref_buffer)
               /\ n % FrameSize = 0
               /\ n <= returned
               /\ adapter.mic_buffer =
                    Feed(100, returned, Len(adapter.mic_buffer))
               /\ adapter.ref_buffer =
                    Feed(200, returned, Len(adapter.ref_buffer))
               /\ \/ adapter.result = Feed(100, returned - n, n)
                  \/ adapter.result = [i \in 1..n |-> -100]

\* Three frames were cancelled over several calls fed unequal amounts, the
\* last call returned subtracted samples and left samples of both streams.
C34_Witness ==
    /\ adapter.op = "process_samples"
    /\ NeverEmptied
    /\ adapter.ops >= 3
    /\ adapter.calls >= 3
    /\ adapter.result # <<>>
    /\ adapter.result[1] = -100
    /\ adapter.mic_buffer # <<>>
    /\ Len(adapter.ref_buffer) > Len(adapter.mic_buffer)

(***************************************************************************)
(* One worker per session.                                                 *)
(***************************************************************************)
WorkerRunning == worker_pc \notin {"unstarted", "done"}

WorkerRank(pc) ==
    CASE pc = "unstarted" -> 0
      [] pc = "make_writer" -> 1
      [] pc \in {"setup", "single_open"} -> 2
      [] pc \in {"open_mic", "single_open_wave"} -> 3
      [] pc \in {"open_loopback", "single_test"} -> 4
      [] pc \in {"start_threads", "single_close_sink"} -> 5
      [] pc \in {"open_wave", "single_close_stream"} -> 6
      [] pc = "loop_test" -> 7
      [] pc = "close_sink" -> 8
      [] pc = "join_mic" -> 9
      [] pc = "join_loopback" -> 10
      [] pc = "close_streams" -> 11
      [] pc = "except" -> 12
      [] pc = "finally" -> 13
      [] pc = "done" -> 14
      [] OTHER -> 99

\* C38: stop_event, once set, stays set through every operation, a later
\* start_recording included; request_stop on a stopped session changes
\* nothing; and a worker started with stop_event set never enters the body
\* of a read or mix loop, moves only forward through its positions (so it
\* ends within 14 steps), hands nothing to the sink and counts no byte.
C38_CancellationIsMonotonic ==
    [][/\ stop_event => stop_event'
       /\ (stop_event /\ caller_pc = "waiting" /\ caller_pc' = "joining")
            => UNCHANGED <<stop_event, accepted_at_stop, stateVars,
                           workerVars, sinkVars>>
       /\ command'.started_stopped
            => /\ stop_event'
               /\ sink' = <<>>
               /\ bytes_recorded' = 0
               /\ WorkerRank(worker_pc') <= 14
               /\ (WorkerRunning /\ worker_pc' # worker_pc)
                    => WorkerRank(worker_pc') > WorkerRank(worker_pc)
      ]_vars

\* A session stopped during its first run, after loopback samples had been
\* accepted, was started again: the second worker ran to its end, closed
\* its output and wrote nothing.
C38_Witness ==
    /\ command.started_stopped
    /\ accepted_at_stop > 0
    /\ session.mode = "BOTH"
    /\ worker_pc = "done"
    /\ sink_state = "closed"
    /\ sink = <<>>
    /\ error = None

(***************************************************************************)
(* The capture streams.                                                    *)
(***************************************************************************)
\* The backend call of record_worker has returned or raised.
BackendLeft == worker_pc \in {"except", "finally", "done"}

\* C36: once record_to_file or record_dual_to_file has returned or raised,
\* no capture stream is open, whichever way it was left; a stream is opened
\* only by the backend's open calls; and the closing step closes what is
\* open, leaves a stream that is not open as it is, and raises nothing.
C36_StreamsClosedOnExit ==
    [][/\ BackendLeft' => (~mic_stream' /\ ~loopback_stream')
       /\ (mic_stream' /\ ~mic_stream)
            => worker_pc \in {"open_mic", "single_open"}
       /\ (loopback_stream' /\ ~loopback_stream)
            => worker_pc \in {"open_loopback", "single_open"}
       /\ (worker_pc \in {"close_streams", "single_close_stream"}
             /\ worker_pc' # worker_pc)
            => /\ ~mic_stream' /\ ~loopback_stream'
               /\ BackendLeft'
               /\ UNCHANGED <<worker_exc, stateVars, sinkVars>>
      ]_vars

\* A dual-source worker whose write failed after both devices had been
\* read has ended with both streams closed.
C36_Witness ==
    /\ session.mode = "BOTH"
    /\ worker_pc = "done"
    /\ error = "IoError"
    /\ mic_reads >= 1 /\ loopback_reads >= 1
    /\ ~mic_stream /\ ~loopback_stream

\* C37: the device read of a stream is never running on a handle that
\* close() has stopped or released: a reader inside self._stream.read()
\* always has its stream open.
C37_ReadNeverOnReleasedHandle ==
    stage.op = "streams"
        => \A s \in {"mic", "loopback"} :
             stage.reader[s] = "device" => stage.handle[s] = "open"

\* C39: the echo-canceller adapter exists only when echo cancellation is
\* both requested and reported available; when it is requested but
\* unavailable, the setup step creates no adapter and raises or records no
\* error, and every cycle hands the padded mic slice to gain control
\* unchanged; the frame size of a created adapter is
\* max(160, outputRate // 100).
C39_UnavailableAecPassesThrough ==
    [][/\ aec_processor'.present => session.aec_enabled /\ aec_available
       /\ (worker_pc = "setup" /\ worker_pc' # "setup"
              /\ session.aec_enabled /\ ~aec_available)
            => /\ aec_processor' = NoAec
               /\ worker_pc' = "open_mic"
               /\ UNCHANGED <<worker_exc, error>>
       /\ (cycle' # NoCycle /\ ~aec_processor'.present)
            => /\ cycle'.mic_chunk = cycle'.mic_slice
               /\ Len(cycle'.mic_slice) = cycle'.chunk_size
       /\ \A rate \in Rates :
            /\ aec_frame_size(rate) >= 160
            /\ aec_frame_size(rate) >= rate \div 100
            /\ aec_frame_size(rate) \in {160, rate \div 100}]_vars

C39_Witness ==
    /\ session.aec_enabled
    /\ ~aec_available
    /\ ~aec_processor.present
    /\ cycle # NoCycle
    /\ cycle.mic_chunk = cycle.mic_slice
    /\ \E i \in 1..Len(cycle.mic_slice) : cycle.mic_slice[i] # 0
    /\ sink # <<>>
    /\ error = None

\* C40: in the start command the WAV file is removed only by the step that
\* follows a conversion encode_to_mp3 reported successful, and only without
\* --keep-wav; a failed conversion keeps the WAV file and reports it as the
\* saved output; after a recording error was reported nothing is converted
\* or removed; so when the command has ended, its worker has ended and no
\* error was recorded, the WAV file or a completely written MP3 file exists.
WavFile == sink_state # "none" /\ ~command.wav_removed

C40_WitnessFailedConversion ==
    /\ caller_pc = "exited"
    /\ command.encoded = "False"
    /\ command.saved = "wav"
    /\ WavFile

====
